---- MODULE Spec2Model ----
(***************************************************************************)
(* quansync: one logic definition driven either synchronously or           *)
(* asynchronously.  The model is a small-step machine for the library code *)
(* of src/src/index.ts (and the onYield / getIsAsync variant of            *)
(* src/unnamed/part_009): generator objects and promises live in a heap,   *)
(* the JavaScript call stack is a sequence of frames, and promise jobs     *)
(* wait in a FIFO microtask queue.                                         *)
(***************************************************************************)
EXTENDS Integers, Sequences, FiniteSets, TLC

(***************************************************************************)
(* Bounds of the input space.                                              *)
(***************************************************************************)
\* longest generator body (number of yield / yield* / throw statements)
MaxLen == 2
\* largest factor handed to multiply
MaxArg == 5

(***************************************************************************)
(* Values.  Every JavaScript value is a record [t, v].                     *)
(***************************************************************************)
\* error identities: each throw site of the program has its own error object
QErr == 1
ErrSync == 2
ErrAsync == 3
ErrBody == 4
ErrFn == 5
ErrType == 6
ErrHook == 7

V(t, v) == [t |-> t, v |-> v]
Undef == V("undef", 0)
Num(n) == V("num", n)
Bool(b) == V("bool", IF b THEN 1 ELSE 0)
Err(e) == V("err", e)
PromV(p) == V("prom", p)
GenV(g) == V("gen", g)
Obj(o) == V("obj", o)
NaN == V("nan", 0)
Str == V("str", 0)

\* export const GET_IS_ASYNC = Symbol.for('quansync.getIsAsync')
GET_IS_ASYNC == V("tag", 0)

\* new QuansyncError(): 'Unexpected promise in sync context'
QuansyncError == Err(QErr)

\* JavaScript truthiness (ToBoolean) of a value: `if (isAsync)`, `!!x`
Truthy(x) ==
  CASE x.t = "undef" -> FALSE
    [] x.t = "bool" -> x.v = 1
    [] x.t = "num" -> x.v # 0
    [] OTHER -> TRUE

\* a completion travelling between frames: t is "none" (nothing in flight),
\* "next" / "inject" (generator.next(v) / generator.throw(v) being delivered),
\* "yield" / "ret" / "throw" (what a generator step or a call produced)
Msg(t, v) == [t |-> t, v |-> v]
NoMsg == Msg("none", Undef)

(***************************************************************************)
(* The program under test: what the caller hands to quansync().            *)
(***************************************************************************)
\* the callables of the program; kind is the shape of what quansync() is given
FnIds ==
  {"echo", "later", "thrower", "badAsync", "g1", "g2", "tail", "tailThrow",
   "ofVal", "ofProm", "ofPending", "ofGen", "lift", "self",
   "leaky", "add", "toString", "bare"}

\* kind "pair":  quansync({ sync, async })            (an implementation pair)
\* kind "gen":   quansync(function* (...) { body })   (a generator function)
\* kind "fn":    quansync(() => ...)                  (a plain function producing a computation)
\* kind "value": quansync(x)                          (an eventual or plain value x)
\* kind "lift":  fromPromise(x), as toGenerator builds it for the x it is given
Fns ==
  [f \in FnIds |->
    CASE f = "echo"      -> [kind |-> "pair", sync |-> "echo", async |-> "resolveNow", x |-> Undef]
      [] f = "later"     -> [kind |-> "pair", sync |-> "echo", async |-> "resolveLater", x |-> Undef]
      [] f = "thrower"   -> [kind |-> "pair", sync |-> "throw", async |-> "reject", x |-> Undef]
      [] f = "badAsync"  -> [kind |-> "pair", sync |-> "echo", async |-> "throw", x |-> Undef]
      [] f = "g1"        -> [kind |-> "gen", sync |-> "", async |-> "", x |-> Undef]
      [] f = "g2"        -> [kind |-> "gen", sync |-> "", async |-> "", x |-> Undef]
      [] f = "tail"      -> [kind |-> "fn", sync |-> "call", async |-> "call", x |-> Undef]
      [] f = "tailThrow" -> [kind |-> "fn", sync |-> "throw", async |-> "throw", x |-> Undef]
      [] f = "ofVal"     -> [kind |-> "value", sync |-> "", async |-> "", x |-> Num(5)]
      [] f = "ofProm"    -> [kind |-> "value", sync |-> "", async |-> "", x |-> PromV(1)]
      [] f = "ofPending" -> [kind |-> "value", sync |-> "", async |-> "", x |-> PromV(2)]
      [] f = "ofGen"     -> [kind |-> "value", sync |-> "", async |-> "", x |-> GenV(1)]
      [] f = "lift"      -> [kind |-> "lift", sync |-> "", async |-> "", x |-> Undef]
      [] f = "self"      -> [kind |-> "pair", sync |-> "this", async |-> "this", x |-> Undef]
      [] f = "leaky"     -> [kind |-> "pair", sync |-> "promise", async |-> "resolveNow", x |-> Undef]
      [] f = "add"       -> [kind |-> "pair", sync |-> "add", async |-> "addLater", x |-> Undef]
      [] f = "toString"  -> [kind |-> "pair", sync |-> "string", async |-> "stringLater", x |-> Undef]
      [] f = "bare"      -> [kind |-> "gen", sync |-> "", async |-> "", x |-> Undef]]

\* one statement of a generator body; every statement assigns what it
\* evaluates to into the body's single local `acc`:
\*   yv      acc = yield 7                   ytag   acc = yield GET_IS_ASYNC
\*   yprom   acc = yield new Promise(r => setTimeout(() => r(arg)))
\*   deleg   acc = yield* f.call(this, acc)
\*   dgia    acc = yield* getIsAsync()       ygia   acc = yield getIsAsync()
\*   throw   throw new Error()               yacc   acc = yield acc
\*   lift    acc = yield* toGenerator(x)     same   acc = (toGenerator(g) === g)
\*   ycall   acc = yield f.call(this, acc)   y0     acc = yield 0
\*   loop    for (let i = 0; i < b; i++) acc = yield* f(acc, a)
\*   aw      acc = yield Promise.resolve(c)  dc     acc = yield* c
\*   yc      acc = yield c
\* where c is the computation the program holds (see Held)
\* where f names the operand: x is the object INPUT ("val"), a promise a
\* timer resolves ("pending"), Promise.resolve(5) ("resolved") or the
\* computation later.call(this, acc) ("call"); g is toGenerator(INPUT)
\* ("val") or later.call(this, acc) ("call")
Ins(op, f) == [op |-> op, f |-> f]
PlainYielded == Num(7)
INPUT == Obj(1)
TopInstr ==
  {Ins(op, "") : op \in {"yv", "ytag", "yprom", "dgia", "ygia", "throw"}}
    \cup {Ins("deleg", f) : f \in {"later", "thrower", "g2"}}
InnerInstr ==
  {Ins(op, "") : op \in {"yv", "ytag"}} \cup {Ins("deleg", f) : f \in {"later", "thrower"}}

SeqsUpTo(S, n) == UNION {[1..k -> S] : k \in 0..n}

\* a body: its statements, and how they are wrapped:
\*   catch "none"  no try/catch
\*   catch "ret"   try { statements } catch (err) { return err }
\*   catch "cont"  every statement is `try { statement } catch (err) { acc = err }`
\*   catch "yield" try { statements } catch (err) { acc = yield err }
Body(ops, catch) == [ops |-> ops, catch |-> catch]
EmptyBody == Body(<<>>, "none")
TopBodies == {Body(ops, c) : ops \in SeqsUpTo(TopInstr, MaxLen), c \in {"none", "ret", "cont"}}
InnerBodies == {Body(<<i>>, "none") : i \in InnerInstr}
DefaultInner == Body(<<Ins("yv", "")>>, "none")

Calls(body, f) == \E k \in DOMAIN body.ops : body.ops[k] = Ins("deleg", f)

\* the argument tuples of an invocation
ArgTuples == {<<>>, <<Num(3)>>}
FirstArg(args) == IF Len(args) >= 1 THEN args[1] ELSE Undef
SecondArg(args) == IF Len(args) >= 2 THEN args[2] ELSE Undef

\* an addition that drops its left operand
AddIgnoresLeft(a, b) == b

\* a + b and String(value), on the values the programs compute with
Add(a, b) == IF a.t = "num" /\ b.t = "num" THEN Num(a.v + b.v) ELSE NaN
String(value) == V("string", value)

\* the receivers (`this`) of the program: none, and two objects
FakeThis == Obj(2)
OtherThis == Obj(3)

\* the caller's script: the three entry points, one invocation after another
Script == <<"sync", "async", "await">>

\* the programs: which callable the caller invokes, with which arguments,
\* and the bodies of the two generator functions; recv is the receiver of the
\* caller's invocations.  A program with bind = TRUE also makes
\* bindThis(fn, bthis, ...args[1..split]) and invokes its entry points with
\* the remaining arguments.  hook is the onYield option g1 is built with:
\*   "inc"    v => v + 1
\*   "guard"  (v, isAsync) => { if (!isAsync && v instanceof Promise) throw new TypeError(); return v }
\* A program with overlap = TRUE makes the last invocation of its script
\* without waiting for the one before it to settle.  A program with held = f
\* has made the plain call c = later(3) (f = "later") or c = self.call(FakeThis)
\* (f = "self") before its first invocation, and its body refers to c.
Prog(t, a, b1, b2) ==
  [top |-> t, args |-> a, g1 |-> b1, g2 |-> b2,
   recv |-> Undef, bind |-> FALSE, bthis |-> Undef, split |-> 0, hook |-> "none",
   script |-> Script, overlap |-> FALSE, held |-> "none"]
Programs ==
  {Prog(t, a, b1, b2) :
      t \in FnIds \ {"g2", "lift", "self", "leaky", "add", "toString", "bare"}, a \in ArgTuples, b1 \in TopBodies, b2 \in InnerBodies}

\* the statements of the programs that lift values with toGenerator
LiftInstr ==
  {Ins("lift", x) : x \in {"val", "pending", "resolved", "call"}}
    \cup {Ins("same", x) : x \in {"val", "call"}} \cup {Ins("dgia", "")}
LiftPrograms ==
  {Prog("g1", a, Body(ops, c), DefaultInner) :
      a \in ArgTuples, ops \in SeqsUpTo(LiftInstr, MaxLen), c \in {"none", "ret"}}

\* the programs that use receivers and bindThis: the body of test 'bind this'
\* (yield* obj.call(this), directly or through g2), with up to two arguments
BindInstr ==
  {Ins("deleg", f) : f \in {"self", "g2", "later", "thrower"}} \cup {Ins("dgia", "")}
BindArgTuples == {<<>>, <<Num(3)>>, <<Num(3), Num(4)>>}
BindPrograms ==
  {[Prog("g1", a, Body(ops, "none"), Body(<<Ins("deleg", "self")>>, "none"))
      EXCEPT !.recv = r, !.bind = TRUE, !.bthis = b, !.split = k] :
      a \in BindArgTuples, ops \in SeqsUpTo(BindInstr, MaxLen),
      r \in {Undef, FakeThis}, b \in {FakeThis, OtherThis}, k \in 0..2}

\* the programs that build g1 with an onYield hook
HookInstr ==
  {Ins(op, "") : op \in {"yacc", "yv", "yprom", "dgia"}} \cup {Ins("deleg", "later")}
HookPrograms ==
  {[Prog("g1", a, Body(ops, c), DefaultInner) EXCEPT !.hook = h] :
      a \in ArgTuples, ops \in SeqsUpTo(HookInstr, MaxLen), c \in {"none", "ret"},
      h \in {"inc", "guard"}}

\* the programs that build the body of g1 twice, with the identity hook and
\* with no hook
TwinInstr ==
  HookInstr \cup {Ins("ytag", ""), Ins("throw", ""), Ins("ycall", "later"), Ins("deleg", "thrower")}
TwinPrograms ==
  {[Prog("g1", a, Body(ops, c), DefaultInner) EXCEPT !.hook = "id"] :
      a \in ArgTuples, ops \in SeqsUpTo(TwinInstr, MaxLen), c \in {"none", "cont"}}

\* the programs that nest computations: g1 yields the computation of a plain
\* call (of an implementation pair or of g2), delegates, yields a generator
\* object of the host or a promise; leaky is the pair whose sync
\* implementation returns a promise
NestInstr ==
  {Ins(op, "") : op \in {"yv", "ygia", "yprom", "dgia"}}
    \cup {Ins("ycall", f) : f \in {"later", "thrower", "g2"}}
    \cup {Ins("deleg", f) : f \in {"g2", "leaky", "thrower"}}
NestInner == InnerBodies \cup {Body(<<Ins("ycall", "later")>>, "none")}
UsesG2(body) == \E k \in DOMAIN body.ops : body.ops[k].f = "g2"
NestBodies == {Body(ops, c) : ops \in SeqsUpTo(NestInstr, MaxLen), c \in {"none", "cont", "yield"}}
NestPrograms ==
  {pr \in {Prog("g1", <<Num(3)>>, b1, b2) : b1 \in NestBodies, b2 \in NestInner} :
      UsesG2(pr.g1) \/ pr.g2 = DefaultInner}
    \cup {Prog("leaky", <<Num(3)>>, EmptyBody, DefaultInner)}

\* test 'generator': multiply(a, b) adds a to a sum b times, starting from
\* the 0 it yields, and returns the sum as a string
Multiply == <<Ins("y0", ""), Ins("loop", "add"), Ins("deleg", "toString")>>
ArithPrograms ==
  {Prog("g1", <<Num(a), Num(b)>>, Body(Multiply, "none"), DefaultInner) :
      a \in 0..MaxArg, b \in 0..MaxArg}

\* the programs whose invocations overlap
OverlapInstr ==
  {Ins(op, "") : op \in {"yv", "yprom", "dgia"}} \cup {Ins("deleg", f) : f \in {"later", "thrower"}}
OverlapScripts == {<<"async", "async", "async">>, <<"sync", "await", "async">>}
OverlapPrograms ==
  {[Prog("g1", <<Num(3)>>, Body(ops, c), DefaultInner) EXCEPT !.overlap = TRUE, !.script = sc] :
      ops \in SeqsUpTo(OverlapInstr, MaxLen), c \in {"none", "cont"}, sc \in OverlapScripts}

\* the programs that hold a computation: the body lets a promise adopt it
\* (which calls its then()), delegates to it or yields it
ThenInstr == {Ins(op, "") : op \in {"aw", "dc", "yc", "dgia", "yv"}}
ThenPrograms ==
  {[Prog("g1", <<>>, Body(ops, c), DefaultInner) EXCEPT !.held = h] :
      ops \in SeqsUpTo(ThenInstr, MaxLen), c \in {"none", "cont"}, h \in {"later", "self"}}

WellFormed(pr) ==
  /\ pr.top # "g1" => pr.g1 = EmptyBody
  /\ ~Calls(pr.g1, "g2") => pr.g2 = DefaultInner

(***************************************************************************)
(* State.                                                                  *)
(***************************************************************************)
VARIABLES
  prog,     \* the program (fixed by Init)
  gens,     \* heap: generator objects, by identity
  proms,    \* heap: promises, by identity
  stack,    \* JavaScript call stack, top last
  msg,      \* the completion in flight between two frames
  mq,       \* microtask queue (FIFO)
  reacts,   \* promise reactions registered on pending promises
  funcs,    \* heap: the dual-mode function objects (fn, and what bindThis made)
  results,  \* outcome of each invocation of the script
  stats     \* counters: implementation calls, promises created, awaits;
            \* hooked: the calls of the onYield hook in the current invocation

vars == <<prog, gens, proms, stack, msg, mq, reacts, funcs, results, stats>>

\* bare is quansync() of the generator function of g1 with no options
BodyOf(f) == IF f \in {"g1", "bare"} THEN prog.g1 ELSE prog.g2

(***************************************************************************)
(* The machine: the mutable state as one record, so that the steps of the  *)
(* library can be written as functions from machine to machine.            *)
(***************************************************************************)
Machine ==
  [gens |-> gens, proms |-> proms, stack |-> stack, msg |-> msg,
   mq |-> mq, reacts |-> reacts, stats |-> stats]

Becomes(m) ==
  /\ gens' = m.gens
  /\ proms' = m.proms
  /\ stack' = m.stack
  /\ msg' = m.msg
  /\ mq' = m.mq
  /\ reacts' = m.reacts
  /\ stats' = m.stats

\* a generator object.  kind: "obj" the generator of fromObject (one per plain
\* call fn(...)), "body" an instance of a caller's generator function, "gia" an
\* instance of getIsAsync.  quansync / hasThen: the properties fn() sets.
\* i: the counter of the body's loop; wait: the computation the body has
\* yielded and is suspended on (0: none).
GenObj(kind, f, thisv, args, marked) ==
  [kind |-> kind, fn |-> f, thisv |-> thisv, args |-> args, st |-> "start",
   pc |-> 1, acc |-> FirstArg(args), deleg |-> 0, quansync |-> marked, hasThen |-> marked,
   i |-> 0, wait |-> 0, fed |-> <<>>]

\* a promise; timer: the environment settles it later (setTimeout) with tv
PromObj(st, val, timer, tv) == [st |-> st, val |-> val, timer |-> timer, tv |-> tv]

\* the objects that exist before the first invocation: the promise
\* Promise.resolve(5), a promise a timer will resolve, and the computation
\* later(3), for the programs that hand them to quansync()
ResolvedValue == Num(5)
TimerValue == Num(6)
InitProms(pr) ==
  IF pr.top = "ofPending"
  THEN <<PromObj("fulfilled", ResolvedValue, FALSE, Undef), PromObj("pending", Undef, TRUE, TimerValue)>>
  ELSE <<PromObj("fulfilled", ResolvedValue, FALSE, Undef)>>
InitGens(pr) ==
  CASE pr.top = "ofGen" \/ pr.held = "later" -> <<GenObj("obj", "later", Undef, <<Num(3)>>, TRUE)>>
    [] pr.held = "self" -> <<GenObj("obj", "self", FakeThis, <<>>, TRUE)>>
    [] OTHER -> <<>>

\* the computation a program holds: the first object of the heap
Held == GenV(1)

\* a stack frame.  k: "iterateSync" / "iterateAsync" (an activation of a
\* driver on generator g), "run" (generator g executing inside next/throw),
\* "top" (the caller of invocation `call`), "then" (iter.then running for the
\* promise p).  For iterateAsync: p is the promise its async function returned
\* or will return, det says that it has been resumed from the microtask queue.
Frame(k, g, ph) ==
  [k |-> k, g |-> g, ph |-> ph, hook |-> "none", p |-> 0, det |-> FALSE,
   intry |-> FALSE, call |-> 0]
NoFrame == Frame("", 0, "")

\* a promise job.  k: "resume" (continue the awaiting activation fr),
\* "thenable" (NewPromiseResolveThenableJob: call x.then to settle p),
\* "settle" (then-callbacks that settle p with the outcome), "caller" (the
\* caller's await of invocation `call`); o is the outcome delivered.
Job(k, fr, x, p, call) == [k |-> k, fr |-> fr, x |-> x, p |-> p, call |-> call, o |-> NoMsg]

Top(m) == m.stack[Len(m.stack)]
Pop(m) == [m EXCEPT !.stack = SubSeq(@, 1, Len(@) - 1)]
SetTop(m, fr) == [m EXCEPT !.stack[Len(m.stack)] = fr]
Push(m, fr) == [m EXCEPT !.stack = Append(@, fr)]
WithMsg(m, o) == [m EXCEPT !.msg = o]
\* the top frame returns (or throws, or yields) o to the frame below
Return(m, o) == WithMsg(Pop(m), o)
Count(m, c) == [m EXCEPT !.stats[c] = @ + 1]

NewGen(m, g) == [m EXCEPT !.gens = Append(@, g)]
NewProm(m, p) == Count([m EXCEPT !.proms = Append(@, p)], "proms")
Latest(heap) == Len(heap)

\* the promise p settles: its reactions become jobs, in registration order
Settle(m, p, o) ==
  IF m.proms[p].st # "pending" THEN m
  ELSE LET mine(r) == r.p0 = p
           others(r) == r.p0 # p
           woken == SelectSeq(m.reacts, mine)
       IN [m EXCEPT
             !.proms[p] = [@ EXCEPT !.st = IF o.t = "ret" THEN "fulfilled" ELSE "rejected",
                                    !.val = o.v, !.timer = FALSE],
             !.reacts = SelectSeq(@, others),
             !.mq = @ \o [k \in 1..Len(woken) |-> [woken[k].job EXCEPT !.o = o]]]

\* function isThenable(value)
isThenable(G, value) ==
  \/ value.t = "prom"
  \/ value.t = "gen" /\ G[value.v].hasThen

\* a check that takes every generator object for the computation of a
\* dual-mode call
isQuansyncGeneratorUnmarked(G, value) == value.t = "gen"

\* a check that recognises no generator as the computation of a dual-mode call
isQuansyncGeneratorNever(G, value) == FALSE

\* function isQuansyncGenerator(value)
isQuansyncGenerator(G, value) ==
  value.t = "gen" /\ G[value.v].quansync

\* the resolve function of promise p called with x: a thenable is adopted by
\* a job that calls its then(), anything else fulfils p
Resolve(m, p, x) ==
  IF isThenable(m.gens, x)
  THEN [m EXCEPT !.mq = Append(@, Job("thenable", NoFrame, x, p, 0))]
  ELSE Settle(m, p, Msg("ret", x))

Reject(m, p, e) == Settle(m, p, Msg("throw", e))

\* promise.then(job) on the native promise x
Then(m, x, job) ==
  LET pr == m.proms[x.v] IN
  IF pr.st = "pending"
  THEN [m EXCEPT !.reacts = Append(@, [p0 |-> x.v, job |-> job])]
  ELSE [m EXCEPT !.mq = Append(@, [job EXCEPT !.o =
            Msg(IF pr.st = "fulfilled" THEN "ret" ELSE "throw", pr.val)])]

\* `await x` by the continuation job: a native promise is awaited as it is,
\* another thenable through a fresh promise, a plain value resumes in a
\* later job
AwaitWith(m, x, job) ==
  IF x.t = "prom" THEN Count(Then(m, x, job), "awaits")
  ELSE IF isThenable(m.gens, x)
  THEN LET m1 == NewProm(m, PromObj("pending", Undef, FALSE, Undef))
           w == Latest(m1.proms)
       IN Count(Then(Resolve(m1, w, x), PromV(w), job), "awaits")
  ELSE Count([m EXCEPT !.mq = Append(@, [job EXCEPT !.o = Msg("ret", x)])], "awaits")

\* Promise.resolve(x): a native promise is returned as it is
PromiseResolve(m, x) ==
  IF x.t = "prom" THEN WithMsg(m, Msg("ret", x))
  ELSE LET m1 == NewProm(m, PromObj("pending", Undef, FALSE, Undef))
           w == Latest(m1.proms)
       IN WithMsg(Resolve(m1, w, x), Msg("ret", PromV(w)))

(***************************************************************************)
(* The library: src/src/index.ts, with the onYield option of               *)
(* src/unnamed/part_009.                                                   *)
(***************************************************************************)
\* a default hook that is not the identity on numbers
DEFAULT_ON_YIELD_Increments(value) ==
  IF value.t = "num" THEN Msg("ret", Num(value.v + 1)) ELSE Msg("ret", value)

\* const DEFAULT_ON_YIELD = (value) => value; the outcome of calling the hook
DEFAULT_ON_YIELD(value) == Msg("ret", value)

\* JavaScript `v + 1`: a number is incremented, a symbol cannot be converted
\* (TypeError), undefined gives NaN, an object is concatenated as a string
Inc(value) ==
  CASE value.t = "num" -> Msg("ret", Num(value.v + 1))
    [] value.t = "bool" -> Msg("ret", Num(value.v + 1))
    [] value.t = "tag" -> Msg("throw", Err(ErrType))
    [] value.t \in {"undef", "nan"} -> Msg("ret", NaN)
    [] OTHER -> Msg("ret", Str)

\* onYield(value, isAsync): the outcome of calling the hook of the drive
onYield(hook, value, isAsync) ==
  CASE hook = "inc" -> Inc(value)
    [] hook = "guard" ->
         IF ~Truthy(isAsync) /\ value.t = "prom" THEN Msg("throw", Err(ErrHook))
         ELSE Msg("ret", value)
    [] hook = "id" -> Msg("ret", value)
    [] OTHER -> DEFAULT_ON_YIELD(value)

\* a fromGeneratorFn that does not pass the option on
HookOfNone(f) == "none"

\* options?.onYield of the generator function f
HookOf(f) == IF f = "g1" THEN prog.hook ELSE "none"

\* a sync driver that calls the hook without the flag
SyncHookFlagMissing == Undef

\* the flag iterateSync / iterateAsync passes to the hook
SyncHookFlag == Bool(FALSE)
AsyncHookFlag == Bool(TRUE)

\* onYield(current.value, isAsync) in the activation fr; the calls of a
\* hook given as an option are recorded
CallHook(m, fr, value, isAsync) ==
  WithMsg(IF fr.hook = "none" THEN m
          ELSE [m EXCEPT !.stats.hooked = Append(@, [v |-> value, isAsync |-> isAsync])],
          onYield(fr.hook, value, isAsync))

\* unwrapYield answering the Context Tag with true in either driver
unwrapYieldAlwaysAsync(G, value, isAsync) ==
  IF value = GET_IS_ASYNC THEN [t |-> "val", v |-> Bool(TRUE)]
  ELSE IF isQuansyncGenerator(G, value)
  THEN [t |-> IF Truthy(isAsync) THEN "iterateAsync" ELSE "iterateSync", v |-> value]
  ELSE IF ~Truthy(isAsync) /\ isThenable(G, value) THEN [t |-> "throw", v |-> QuansyncError]
  ELSE [t |-> "val", v |-> value]

\* unwrapYield answering the Context Tag with !!isAsync
unwrapYieldCoerced(G, value, isAsync) ==
  IF value = GET_IS_ASYNC THEN [t |-> "val", v |-> Bool(Truthy(isAsync))]
  ELSE IF isQuansyncGenerator(G, value)
  THEN [t |-> IF Truthy(isAsync) THEN "iterateAsync" ELSE "iterateSync", v |-> value]
  ELSE IF ~Truthy(isAsync) /\ isThenable(G, value) THEN [t |-> "throw", v |-> QuansyncError]
  ELSE [t |-> "val", v |-> value]

\* unwrapYield without the check for a thenable in a sync drive
unwrapYieldNoThenableCheck(G, value, isAsync) ==
  IF value = GET_IS_ASYNC THEN [t |-> "val", v |-> isAsync]
  ELSE IF isQuansyncGenerator(G, value)
  THEN [t |-> IF Truthy(isAsync) THEN "iterateAsync" ELSE "iterateSync", v |-> value]
  ELSE [t |-> "val", v |-> value]

\* function unwrapYield(value, isAsync?): what the driver is told to do with a
\* yielded value: "val" use v, "throw" throw v, or drive the generator v with
\* iterateAsync / iterateSync.  isAsync is the argument as passed (undefined
\* when the caller passes none).
unwrapYield(G, value, isAsync) ==
  IF value = GET_IS_ASYNC THEN [t |-> "val", v |-> isAsync]
  ELSE IF isQuansyncGenerator(G, value)
  THEN [t |-> IF Truthy(isAsync) THEN "iterateAsync" ELSE "iterateSync", v |-> value]
  ELSE IF ~Truthy(isAsync) /\ isThenable(G, value) THEN [t |-> "throw", v |-> QuansyncError]
  ELSE [t |-> "val", v |-> value]

\* a driver is called on generator g: iterateSync(g, hook) or iterateAsync(g, hook).
\* An async function owns the promise it returns from its first moment.
StartDriver(m, k, g, hook) ==
  IF k = "iterateSync"
  THEN WithMsg(Push(m, [Frame(k, g, "start") EXCEPT !.hook = hook]), NoMsg)
  ELSE LET m1 == NewProm(m, PromObj("pending", Undef, FALSE, Undef))
       IN WithMsg(Push(m1, [Frame(k, g, "start") EXCEPT !.hook = hook, !.p = Latest(m1.proms)]), NoMsg)

\* a plain call that does not pass its receiver on
FromObjectFnLosesThis(m, f, thisv, args) == NewGen(m, GenObj("obj", f, Undef, args, TRUE))

\* fromObject: function fn(this, ...args): a fresh generator, marked
\* __quansync and given a then() that runs options.async
FromObjectFn(m, f, thisv, args) == NewGen(m, GenObj("obj", f, thisv, args, TRUE))

\* quansync() without its branch for a thenable input
quansyncNoThenableBranch(G, f) ==
  CASE Fns[f].kind = "lift" -> "fromPromise"
    [] Fns[f].kind \in {"gen", "fn"} -> "fromGeneratorFn"
    [] OTHER -> "fromObject"

\* export function quansync(input, options): the constructor that builds the
\* function f out of its input (toGenerator calls fromPromise itself)
quansync(G, f) ==
  CASE Fns[f].kind = "lift" -> "fromPromise"
    [] Fns[f].kind = "value" -> IF isThenable(G, Fns[f].x) THEN "fromPromise" ELSE "fromObject"
    [] Fns[f].kind \in {"gen", "fn"} -> "fromGeneratorFn"
    [] OTHER -> "fromObject"

\* the `promise` a function built by fromPromise has captured; the generator
\* toGenerator makes of fromPromise(x)() carries x in its argument slot
Captured(f, args) == IF Fns[f].kind = "lift" THEN FirstArg(args) ELSE Fns[f].x

\* a sync implementation of fromPromise that returns whatever it captured
fromPromiseSyncUnchecked(G, promise) == Msg("ret", promise)

\* fromPromise: sync: () => { if (isThenable(promise)) throw new QuansyncError(); return promise }
fromPromiseSync(G, promise) ==
  IF isThenable(G, promise) THEN Msg("throw", QuansyncError) ELSE Msg("ret", promise)

\* a fromGeneratorFn that keeps one instance of the generator function and
\* drives it again in every invocation
DriveNewShared(m, k, f, thisv, args) ==
  IF \E g \in DOMAIN m.gens : m.gens[g].kind = "body" /\ m.gens[g].fn = f
  THEN StartDriver(m, k, CHOOSE g \in DOMAIN m.gens : m.gens[g].kind = "body" /\ m.gens[g].fn = f,
                   HookOf(f))
  ELSE LET m1 == NewGen(m, GenObj("body", f, thisv, args, FALSE))
       IN StartDriver(m1, k, Latest(m1.gens), HookOf(f))

\* a fromGeneratorFn that drives generator functions only and hands back
\* what any other function returns
DriveNewGeneratorsOnly(m, k, f, thisv, args) ==
  IF Fns[f].kind = "gen"
  THEN LET m1 == NewGen(m, GenObj("body", f, thisv, args, FALSE))
       IN StartDriver(m1, k, Latest(m1.gens), "none")
  ELSE LET m1 == FromObjectFn(m, "echo", thisv, args)
       IN WithMsg(m1, Msg("ret", GenV(Latest(m1.gens))))

\* generatorFn.apply(this, args) of fromGeneratorFn, followed by the driver k
DriveNew(m, k, f, thisv, args) ==
  IF Fns[f].kind = "gen"
  THEN LET m1 == NewGen(m, GenObj("body", f, thisv, args, FALSE))
       IN StartDriver(m1, k, Latest(m1.gens), HookOf(f))
  ELSE IF Fns[f].sync = "throw" THEN WithMsg(m, Msg("throw", Err(ErrFn)))
  ELSE LET m1 == FromObjectFn(m, "echo", thisv, args)
       IN StartDriver(m1, k, Latest(m1.gens), HookOf(f))

\* options.sync.apply(this, args) of the function f, as fromObject holds it:
\* the caller's sync implementation, fromGeneratorFn's sync, fromPromise's sync;
\* an input that is neither thenable nor a function is taken for the options
\* object, and calling the implementation it does not have is a TypeError
CallSync(m0, f, thisv, args) ==
  LET m == Count(m0, "syncImpl") IN
  CASE quansync(m.gens, f) = "fromPromise" ->
         WithMsg(m, fromPromiseSync(m.gens, Captured(f, args)))
    [] quansync(m.gens, f) = "fromGeneratorFn" -> DriveNew(m, "iterateSync", f, thisv, args)
    [] Fns[f].kind = "pair" ->
         CASE Fns[f].sync = "echo" -> WithMsg(m, Msg("ret", FirstArg(args)))
           [] Fns[f].sync = "this" -> WithMsg(m, Msg("ret", thisv))
           [] Fns[f].sync = "promise" -> PromiseResolve(m, FirstArg(args))
           [] Fns[f].sync = "add" -> WithMsg(m, Msg("ret", Add(FirstArg(args), SecondArg(args))))
           [] Fns[f].sync = "string" -> WithMsg(m, Msg("ret", String(FirstArg(args))))
           [] OTHER -> WithMsg(m, Msg("throw", Err(ErrSync)))
    [] OTHER -> WithMsg(m, Msg("throw", Err(ErrType)))

\* options.async.apply(this, args) of the function f
CallAsync(m0, f, thisv, args) ==
  LET m == Count(m0, "asyncImpl") IN
  CASE quansync(m.gens, f) = "fromPromise" -> PromiseResolve(m, Captured(f, args))
    [] quansync(m.gens, f) = "fromGeneratorFn" -> DriveNew(m, "iterateAsync", f, thisv, args)
    [] Fns[f].kind = "pair" ->
         CASE Fns[f].async = "resolveNow" -> PromiseResolve(m, FirstArg(args))
           [] Fns[f].async = "this" -> PromiseResolve(m, thisv)
           [] Fns[f].async = "resolveLater" ->
                LET m1 == NewProm(m, PromObj("pending", Undef, TRUE, FirstArg(args)))
                IN WithMsg(m1, Msg("ret", PromV(Latest(m1.proms))))
           [] Fns[f].async = "reject" ->
                LET m1 == NewProm(m, PromObj("rejected", Err(ErrAsync), FALSE, Undef))
                IN WithMsg(m1, Msg("ret", PromV(Latest(m1.proms))))
           [] Fns[f].async = "addLater" ->
                LET m1 == NewProm(m, PromObj("pending", Undef, TRUE, Add(FirstArg(args), SecondArg(args))))
                IN WithMsg(m1, Msg("ret", PromV(Latest(m1.proms))))
           [] Fns[f].async = "stringLater" ->
                LET m1 == NewProm(m, PromObj("pending", Undef, TRUE, String(FirstArg(args))))
                IN WithMsg(m1, Msg("ret", PromV(Latest(m1.proms))))
           [] OTHER -> WithMsg(m, Msg("throw", Err(ErrAsync)))
    [] OTHER -> WithMsg(m, Msg("throw", Err(ErrType)))

\* a then() that runs the computation's own cursor to its end
iterThenAdvances(m, g, p) ==
  CallAsync(Push([m EXCEPT !.gens[g].st = "done"], [Frame("then", g, "") EXCEPT !.p = p]),
            m.gens[g].fn, m.gens[g].thisv, m.gens[g].args)

\* fromObject: iter.then(...thenArgs), called by the job that lets promise p
\* adopt the computation g: options.async.apply(this, args) with the receiver
\* and the arguments of the plain call that made g; StepThen does the rest
iterThen(m, g, p) ==
  CallAsync(Push(m, [Frame("then", g, "") EXCEPT !.p = p]),
            m.gens[g].fn, m.gens[g].thisv, m.gens[g].args)

\* the driver frame fr calls generator.next(v) (t = "next") or
\* generator.throw(v) (t = "inject"); intry: the call stands in the try block
Resume(m, fr, t, v, intry) ==
  WithMsg(Push(SetTop(m, [fr EXCEPT !.ph = "cur", !.intry = intry]), Frame("run", fr.g, "enter")),
          Msg(t, v))

\* the async function leaves the stack: to its caller it returns its promise
\* (the first time), to the job loop nothing
Leave(m, fr) ==
  Return(m, IF fr.det THEN NoMsg ELSE Msg("ret", PromV(fr.p)))

\* a catch clause that gives up the drive instead of throwing into the generator
CaughtAbort(m, fr, err) ==
  IF fr.k = "iterateSync" THEN Return(m, Msg("throw", err))
  ELSE Leave(Reject(m, fr.p, err), fr)

\* a catch clause that throws a new QuansyncError into the generator
CaughtWrapped(m, fr, err) == Resume(m, fr, "inject", QuansyncError, FALSE)

\* catch (err) { current = generator.throw(err) } of both drivers
Caught(m, fr, err) == Resume(m, fr, "inject", err, FALSE)

\* a driver that drives every nested computation synchronously
NestedAlwaysSync(m, fr, u, ph) ==
  StartDriver(SetTop(m, [fr EXCEPT !.ph = ph]), "iterateSync", u.v.v, "none")

\* a driver that resumes the generator at once with the computation it yielded
NestedNotDriven(m, fr, u, ph) == Resume(m, fr, "next", u.v, TRUE)

\* the driver frame fr calls a nested driver, as unwrapYield returns it
Nested(m, fr, u, ph) ==
  StartDriver(SetTop(m, [fr EXCEPT !.ph = ph]), u.t, u.v.v, "none")

\* function iterateSync(generator, onYield): one step of the activation on
\* top of the stack
iterateSync(m) ==
  LET fr == Top(m)
      in == m.msg
  IN
  CASE fr.ph = "start" -> Resume(m, fr, "next", Undef, FALSE)
    [] fr.ph = "cur" /\ in.t = "yield" ->
         LET mh == CallHook(m, fr, in.v, SyncHookFlag)
             h == mh.msg
             u == unwrapYield(m.gens, h.v, Undef)
         IN IF h.t = "throw" THEN Caught(mh, fr, h.v)
            ELSE CASE u.t = "val" -> Resume(mh, fr, "next", u.v, TRUE)
                   [] u.t = "throw" -> Caught(mh, fr, u.v)
                   [] OTHER -> Nested(mh, fr, u, "nested")
    [] fr.ph = "cur" /\ in.t = "ret" ->
         LET u == unwrapYield(m.gens, in.v, Undef)
         IN CASE u.t = "val" -> Return(m, Msg("ret", u.v))
              [] u.t = "throw" -> Return(m, Msg("throw", u.v))
              [] OTHER -> Nested(m, fr, u, "tail")
    [] fr.ph = "cur" /\ in.t = "throw" ->
         IF fr.intry THEN Caught(m, fr, in.v) ELSE Return(m, in)
    [] fr.ph = "nested" /\ in.t = "ret" -> Resume(m, fr, "next", in.v, TRUE)
    [] fr.ph = "nested" /\ in.t = "throw" -> Caught(m, fr, in.v)
    [] OTHER -> Return(m, in)

\* an await whose continuation is never scheduled
AwaitForgets(m, fr, x) == Leave(m, fr)

\* `await x` in the activation fr
Await(m, fr, x) ==
  Leave(AwaitWith(m, x, Job("resume", [fr EXCEPT !.ph = "await", !.det = TRUE], Undef, 0, 0)), fr)

\* async function iterateAsync(generator, onYield): one step of the
\* activation on top of the stack
iterateAsync(m) ==
  LET fr == Top(m)
      in == m.msg
  IN
  CASE fr.ph = "start" -> Resume(m, fr, "next", Undef, FALSE)
    [] fr.ph = "cur" /\ in.t = "yield" ->
         LET mh == CallHook(m, fr, in.v, AsyncHookFlag)
             h == mh.msg
             u == unwrapYield(m.gens, h.v, Bool(TRUE))
         IN IF h.t = "throw" THEN Caught(mh, fr, h.v)
            ELSE CASE u.t = "val" -> Await(mh, fr, u.v)
                   [] u.t = "throw" -> Caught(mh, fr, u.v)
                   [] OTHER -> Nested(mh, fr, u, "nested")
    [] fr.ph = "cur" /\ in.t = "ret" -> Leave(Resolve(m, fr.p, in.v), fr)
    [] fr.ph = "cur" /\ in.t = "throw" ->
         IF fr.intry THEN Caught(m, fr, in.v)
         ELSE Leave(Reject(m, fr.p, in.v), fr)
    [] fr.ph = "nested" /\ in.t = "ret" -> Await(m, fr, in.v)
    [] in.t = "ret" -> Resume(m, fr, "next", in.v, TRUE)
    [] OTHER -> Caught(m, fr, in.v)

(***************************************************************************)
(* Generators: one step of the generator running on top of the stack.      *)
(* A step starts with the message of its caller ("next" or "inject") or    *)
(* with the completion of what the generator itself called.                *)
(***************************************************************************)
\* next() or throw() on a generator that has completed
OnCompleted(m) ==
  Return(m, IF m.msg.t = "next" THEN Msg("ret", Undef) ELSE Msg("throw", m.msg.v))

Complete(m, g, o) ==
  Return([m EXCEPT !.gens[g].st = "done", !.gens[g].deleg = 0], o)

Suspend(m, g, v) ==
  Return([m EXCEPT !.gens[g].st = "susp"], Msg("yield", v))

\* a generator that always takes the sync branch
ChooseImplAlwaysSync(isAsync) == "sync"

\* a generator that always takes the async branch
ChooseImplAlwaysAsync(isAsync) == "async"

\* fromObject's generator: if (isAsync) ... options.async ... else options.sync
ChooseImpl(isAsync) == IF Truthy(isAsync) THEN "async" ELSE "sync"

\* fromObject: const generator = function* (this, ...args) { ... }
fromObjectGenerator(m) ==
  LET fr == Top(m)
      g == fr.g
      G == m.gens[g]
      in == m.msg
      calling(ph) == SetTop([m EXCEPT !.gens[g].st = "running"], [fr EXCEPT !.ph = ph])
  IN
  CASE fr.ph = "enter" /\ G.st = "done" -> OnCompleted(m)
    [] fr.ph = "enter" /\ in.t = "inject" -> Complete(m, g, Msg("throw", in.v))
    [] fr.ph = "enter" /\ G.st = "start" -> Suspend(m, g, GET_IS_ASYNC)
    [] fr.ph = "enter" /\ G.pc = 1 ->
         IF ChooseImpl(in.v) = "async" THEN CallAsync(calling("async"), G.fn, G.thisv, G.args)
         ELSE CallSync(calling("sync"), G.fn, G.thisv, G.args)
    [] fr.ph = "enter" -> Complete(m, g, Msg("ret", in.v))
    [] fr.ph = "async" /\ in.t = "ret" -> Suspend([m EXCEPT !.gens[g].pc = 2], g, in.v)
    [] fr.ph = "sync" /\ in.t = "ret" -> Complete(m, g, Msg("ret", in.v))
    [] OTHER -> Complete(m, g, Msg("throw", in.v))

\* getIsAsync returning what it is resumed with, not coerced to a boolean
getIsAsyncRaw(m) ==
  LET g == Top(m).g
      G == m.gens[g]
      in == m.msg
  IN
  CASE G.st = "done" -> OnCompleted(m)
    [] in.t = "inject" -> Complete(m, g, Msg("throw", in.v))
    [] G.st = "start" -> Suspend(m, g, GET_IS_ASYNC)
    [] OTHER -> Complete(m, g, Msg("ret", in.v))

\* export function* getIsAsync() { return !!(yield GET_IS_ASYNC) }
getIsAsync(m) ==
  LET g == Top(m).g
      G == m.gens[g]
      in == m.msg
  IN
  CASE G.st = "done" -> OnCompleted(m)
    [] in.t = "inject" -> Complete(m, g, Msg("throw", in.v))
    [] G.st = "start" -> Suspend(m, g, GET_IS_ASYNC)
    [] OTHER -> Complete(m, g, Msg("ret", Bool(Truthy(in.v))))

\* toGenerator wrapping whatever it is given
toGeneratorAlwaysWraps(m, x) ==
  LET m1 == FromObjectFn(m, "lift", Undef, <<x>>)
  IN WithMsg(m1, Msg("ret", GenV(Latest(m1.gens))))

\* export function toGenerator(promise): the argument itself when it is a
\* quansync generator, fromPromise(promise)() otherwise
toGenerator(m, x) ==
  IF isQuansyncGenerator(m.gens, x) THEN WithMsg(m, Msg("ret", x))
  ELSE LET m1 == FromObjectFn(m, "lift", Undef, <<x>>)
       IN WithMsg(m1, Msg("ret", GenV(Latest(m1.gens))))

\* the operand of a lift / same statement, evaluated by the generator G
Operand(m, G, which) ==
  CASE which = "val" -> WithMsg(m, Msg("ret", INPUT))
    [] which = "resolved" -> WithMsg(m, Msg("ret", PromV(1)))
    [] which = "pending" ->
         LET m1 == NewProm(m, PromObj("pending", Undef, TRUE, FirstArg(G.args)))
         IN WithMsg(m1, Msg("ret", PromV(Latest(m1.proms))))
    [] OTHER ->
         LET m1 == FromObjectFn(m, "later", G.thisv, <<G.acc>>)
         IN WithMsg(m1, Msg("ret", GenV(Latest(m1.gens))))

\* an instance of a generator function of the program (see Body)
\* fed: the calls generator.next(v) / generator.throw(v) made on the instance
bodyGenerator(m0) ==
  LET fr == Top(m0)
      g == fr.g
      m == IF fr.ph = "enter" THEN [m0 EXCEPT !.gens[g].fed = Append(@, m0.msg)] ELSE m0
      G == m.gens[g]
      in == m.msg
      B == BodyOf(G.fn)
      I == B.ops[G.pc]
      goOnIn(m1, v) ==
        WithMsg(SetTop([m1 EXCEPT !.gens[g].acc = v, !.gens[g].pc = @ + 1,
                                  !.gens[g].deleg = 0, !.gens[g].wait = 0,
                                  !.gens[g].st = "running"],
                       [fr EXCEPT !.ph = "exec"]), NoMsg)
      goOn(v) == goOnIn(m, v)
      again(v) ==
        WithMsg(SetTop([m EXCEPT !.gens[g].acc = v, !.gens[g].deleg = 0, !.gens[g].st = "running"],
                       [fr EXCEPT !.ph = "exec"]), NoMsg)
      raise(e) ==
        CASE B.catch = "none" -> Complete(m, g, Msg("throw", e))
          [] B.catch = "ret" -> Complete(m, g, Msg("ret", e))
          [] B.catch = "yield" ->
               IF G.pc > Len(B.ops) THEN Complete(m, g, Msg("throw", e))
               ELSE Suspend([m EXCEPT !.gens[g].pc = Len(B.ops) + 1, !.gens[g].deleg = 0,
                                      !.gens[g].wait = 0], g, e)
          [] OTHER -> goOn(e)
      delegateTo(m1, d) ==
        WithMsg(Push(SetTop([m1 EXCEPT !.gens[g].deleg = d], [fr EXCEPT !.ph = "deleg"]),
                     Frame("run", d, "enter")),
                Msg("next", Undef))
      delegate(m1) == delegateTo(m1, Latest(m1.gens))
      lifted == toGenerator(Operand(m, G, I.f), Operand(m, G, I.f).msg.v)
      first == IF I.f = "val" THEN toGenerator(m, INPUT) ELSE Operand(m, G, "call")
      second == toGenerator(first, first.msg.v)
  IN
  CASE fr.ph = "enter" /\ G.st = "done" -> OnCompleted(m)
    [] fr.ph = "enter" /\ G.st = "start" ->
         IF in.t = "inject" THEN Complete(m, g, Msg("throw", in.v))
         ELSE WithMsg(SetTop([m EXCEPT !.gens[g].st = "running"], [fr EXCEPT !.ph = "exec"]), NoMsg)
    [] fr.ph = "enter" /\ G.deleg # 0 ->
         WithMsg(Push(SetTop([m EXCEPT !.gens[g].st = "running"], [fr EXCEPT !.ph = "deleg"]),
                      Frame("run", G.deleg, "enter")), in)
    [] fr.ph = "enter" -> IF in.t = "next" THEN goOn(in.v) ELSE raise(in.v)
    [] fr.ph = "exec" /\ G.pc > Len(B.ops) -> Complete(m, g, Msg("ret", G.acc))
    [] fr.ph = "exec" ->
         CASE I.op = "yv" -> Suspend(m, g, PlainYielded)
           [] I.op = "yacc" -> Suspend(m, g, G.acc)
           [] I.op = "ytag" -> Suspend(m, g, GET_IS_ASYNC)
           [] I.op = "yprom" ->
                LET m1 == NewProm(m, PromObj("pending", Undef, TRUE, FirstArg(G.args)))
                IN Suspend(m1, g, PromV(Latest(m1.proms)))
           [] I.op = "ygia" ->
                LET m1 == NewGen(m, GenObj("gia", "", Undef, <<>>, FALSE))
                IN Suspend(m1, g, GenV(Latest(m1.gens)))
           [] I.op = "deleg" -> delegate(FromObjectFn(m, I.f, G.thisv, <<G.acc>>))
           [] I.op = "dgia" -> delegate(NewGen(m, GenObj("gia", "", Undef, <<>>, FALSE)))
           [] I.op = "lift" -> delegateTo(lifted, lifted.msg.v.v)
           [] I.op = "same" -> goOnIn(second, Bool(second.msg.v = first.msg.v))
           [] I.op = "ycall" ->
                LET m1 == FromObjectFn(m, I.f, G.thisv, <<G.acc>>)
                IN Suspend([m1 EXCEPT !.gens[g].wait = Latest(m1.gens)], g, GenV(Latest(m1.gens)))
           [] I.op = "y0" -> Suspend(m, g, Num(0))
           [] I.op = "aw" ->
                LET m1 == PromiseResolve(m, Held)
                IN Suspend(WithMsg(m1, NoMsg), g, m1.msg.v)
           [] I.op = "dc" -> delegateTo(m, Held.v)
           [] I.op = "yc" -> Suspend([m EXCEPT !.gens[g].wait = Held.v], g, Held)
           [] I.op = "loop" ->
                IF G.i < SecondArg(G.args).v
                THEN delegate(FromObjectFn([m EXCEPT !.gens[g].i = @ + 1], I.f, G.thisv,
                                           <<G.acc, FirstArg(G.args)>>))
                ELSE goOn(G.acc)
           [] OTHER -> raise(Err(ErrBody))
    [] fr.ph = "deleg" /\ in.t = "yield" -> Suspend(m, g, in.v)
    [] fr.ph = "deleg" /\ in.t = "ret" -> IF I.op = "loop" THEN again(in.v) ELSE goOn(in.v)
    [] OTHER -> raise(in.v)

(***************************************************************************)
(* Actions.                                                                *)
(***************************************************************************)
Running == stack # <<>>
TopIs(k) == Running /\ stack[Len(stack)].k = k
TopGenIs(kind) == TopIs("run") /\ gens[stack[Len(stack)].g].kind = kind

Settled(i) == results[i].t \notin {"none", "running"}

\* the receiver the caller invokes the entry points with
CallerThis == prog.recv

\* a callable: a function, or what Function.prototype.bind made of one
\* (receiver and leading arguments fixed; the first binding of a receiver wins)
Callable(bound, thisv, pre) == [bound |-> bound, thisv |-> thisv, pre |-> pre]
Plain == Callable(FALSE, Undef, <<>>)
Bind(c, thisArg, args) ==
  IF c.bound THEN [c EXCEPT !.pre = @ \o args] ELSE Callable(TRUE, thisArg, args)

\* the receiver and arguments the target of the callable c runs with when c
\* is called with receiver thisv and arguments args
Applied(c, thisv, args) ==
  [thisv |-> IF c.bound THEN c.thisv ELSE thisv, args |-> c.pre \o args]

\* a dual-mode function object of the function f: the callable itself (the
\* plain call) and its properties sync and async
FnObject(f) == [f |-> f, call |-> Plain, sync |-> Plain, async |-> Plain]

\* bindThis that presets the receiver only
bindThisNoPreset(F, fn, thisArg, args) ==
  Append(F, [f |-> F[fn].f,
             call |-> Bind(F[fn].call, thisArg, <<>>),
             sync |-> Bind(F[fn].sync, thisArg, <<>>),
             async |-> Bind(F[fn].async, thisArg, <<>>)])

\* bindThis that also assigns the bound entry points to fn
bindThisInPlace(F, fn, thisArg, args) ==
  LET newFn == [f |-> F[fn].f,
                call |-> Bind(F[fn].call, thisArg, args),
                sync |-> Bind(F[fn].sync, thisArg, args),
                async |-> Bind(F[fn].async, thisArg, args)]
  IN Append([F EXCEPT ![fn] = newFn], newFn)

\* export function bindThis(fn, thisArg, ...args): a new function object
\* whose three entry points are fn's, bound
bindThis(F, fn, thisArg, args) ==
  Append(F, [f |-> F[fn].f,
             call |-> Bind(F[fn].call, thisArg, args),
             sync |-> Bind(F[fn].sync, thisArg, args),
             async |-> Bind(F[fn].async, thisArg, args)])

\* the invocations of the script: the three entry points of fn with all the
\* arguments, then (in a program that rebinds) the three entry points of the
\* rebound function with the arguments left
\* a program with the hook "id" builds two functions of the body of g1, one
\* with the option { onYield: v => v } and one with no options, and runs the
\* script on the first and then on the second
Twin(pr) == pr.hook = "id"
NCalls(pr) == IF pr.bind \/ Twin(pr) THEN 2 * Len(Script) ELSE Len(Script)
Entry(i) == prog.script[((i - 1) % Len(Script)) + 1]
Rebound(i) == i > Len(Script)
Callee(i) == funcs[IF Rebound(i) THEN 2 ELSE 1]
Preset == SubSeq(prog.args, 1, prog.split)
CallArgs(i) == IF Rebound(i) THEN SubSeq(prog.args, prog.split + 1, Len(prog.args)) ELSE prog.args

\* the caller may make invocation i: the invocations before it have settled
\* and no job is waiting; the last invocation of a program whose invocations
\* overlap only needs the one before it to have been made
MayStart(i) ==
  IF prog.overlap /\ i = Len(Script)
  THEN results[i - 1].t # "none"
  ELSE mq = <<>> /\ \A j \in 1..(i - 1) : Settled(j)

\* the caller invokes the next entry point of the script: fn.sync(...args),
\* fn.async(...args), or `await fn(...args)`
StartCall(i) ==
  /\ ~Running /\ MayStart(i)
  /\ results[i].t = "none"
  /\ Rebound(i) => Len(funcs) > 1
  /\ results' = [results EXCEPT ![i] = Msg("running", Undef)]
  /\ LET caller == [Frame("top", 0, Entry(i)) EXCEPT !.call = i]
         Machine0 == [Machine EXCEPT !.stats.hooked = <<>>]
         fn == Callee(i)
         s == Applied(fn.sync, CallerThis, CallArgs(i))
         a == Applied(fn.async, CallerThis, CallArgs(i))
         c == Applied(fn.call, CallerThis, CallArgs(i))
     IN
     CASE Entry(i) = "sync" -> Becomes(CallSync(Push(Machine0, caller), fn.f, s.thisv, s.args))
       [] Entry(i) = "async" -> Becomes(CallAsync(Push(Machine0, caller), fn.f, a.thisv, a.args))
       [] OTHER ->
            LET m1 == FromObjectFn(Machine0, fn.f, c.thisv, c.args)
            IN Becomes(AwaitWith(m1, GenV(Latest(m1.gens)), Job("caller", NoFrame, Undef, 0, i)))
  /\ UNCHANGED <<prog, funcs>>

\* the caller rebinds fn: bindThis(fn, bthis, ...preset)
BindThis ==
  /\ ~Running /\ mq = <<>>
  /\ prog.bind /\ Len(funcs) = 1
  /\ funcs' = bindThis(funcs, 1, prog.bthis, Preset)
  /\ UNCHANGED <<prog, gens, proms, stack, msg, mq, reacts, results, stats>>

\* the entry point returns to the caller, or throws
CallReturns ==
  /\ TopIs("top")
  /\ LET fr == Top(Machine) IN
     IF fr.ph = "sync"
     THEN /\ results' = [results EXCEPT ![fr.call] = msg]
          /\ Becomes(Return(Machine, NoMsg))
     ELSE IF msg.t = "throw"
     THEN /\ results' = [results EXCEPT ![fr.call] = Msg("syncthrow", msg.v)]
          /\ Becomes(Return(Machine, NoMsg))
     ELSE /\ UNCHANGED results
          /\ Becomes(Return(AwaitWith(Machine, msg.v, Job("caller", NoFrame, Undef, 0, fr.call)), NoMsg))
  /\ UNCHANGED <<prog, funcs>>

StepIterateSync ==
  /\ TopIs("iterateSync")
  /\ Becomes(iterateSync(Machine))
  /\ UNCHANGED <<prog, funcs, results>>

StepIterateAsync ==
  /\ TopIs("iterateAsync")
  /\ Becomes(iterateAsync(Machine))
  /\ UNCHANGED <<prog, funcs, results>>

StepFromObjectGenerator ==
  /\ TopGenIs("obj")
  /\ Becomes(fromObjectGenerator(Machine))
  /\ UNCHANGED <<prog, funcs, results>>

StepBodyGenerator ==
  /\ TopGenIs("body")
  /\ Becomes(bodyGenerator(Machine))
  /\ UNCHANGED <<prog, funcs, results>>

StepGetIsAsync ==
  /\ TopGenIs("gia")
  /\ Becomes(getIsAsync(Machine))
  /\ UNCHANGED <<prog, funcs, results>>

\* fromObject: iter.then = (...thenArgs) => options.async.apply(this, args).then(...thenArgs)
\* after options.async has returned or thrown
StepThen ==
  /\ TopIs("then")
  /\ LET fr == Top(Machine) IN
     IF msg.t = "ret"
     THEN Becomes(Return(Then(Machine, msg.v, Job("settle", NoFrame, Undef, fr.p, 0)), NoMsg))
     ELSE Becomes(Return(Reject(Machine, fr.p, msg.v), NoMsg))
  /\ UNCHANGED <<prog, funcs, results>>

\* the job loop runs the oldest promise job
RunJob ==
  /\ ~Running /\ mq # <<>>
  /\ LET j == Head(mq)
         m == [Machine EXCEPT !.mq = Tail(@)]
     IN
     CASE j.k = "resume" ->
            /\ Becomes(WithMsg(Push(m, j.fr), j.o))
            /\ UNCHANGED results
       [] j.k = "thenable" ->
            /\ IF j.x.t = "prom"
               THEN Becomes(Then(m, j.x, Job("settle", NoFrame, Undef, j.p, 0)))
               ELSE Becomes(iterThen(m, j.x.v, j.p))
            /\ UNCHANGED results
       [] j.k = "settle" ->
            /\ Becomes(IF j.o.t = "ret" THEN Resolve(m, j.p, j.o.v) ELSE Reject(m, j.p, j.o.v))
            /\ UNCHANGED results
       [] OTHER ->
            /\ Becomes(m)
            /\ results' = [results EXCEPT ![j.call] =
                             Msg(IF j.o.t = "ret" THEN "resolve" ELSE "reject", j.o.v)]
  /\ UNCHANGED <<prog, funcs>>

\* a timer of the environment fires and resolves its promise
TimerFires(p) ==
  /\ ~Running /\ mq = <<>>
  /\ proms[p].timer /\ proms[p].st = "pending"
  /\ Becomes(Resolve(Machine, p, proms[p].tv))
  /\ UNCHANGED <<prog, funcs, results>>

InitWith(programs) ==
  /\ prog \in programs
  /\ gens = InitGens(prog)
  /\ proms = InitProms(prog)
  /\ stack = <<>>
  /\ msg = NoMsg
  /\ mq = <<>>
  /\ reacts = <<>>
  /\ funcs = IF Twin(prog) THEN <<FnObject(prog.top), FnObject("bare")>> ELSE <<FnObject(prog.top)>>
  /\ results = [i \in 1..NCalls(prog) |-> Msg("none", Undef)]
  /\ stats = [syncImpl |-> 0, asyncImpl |-> 0, proms |-> 0, awaits |-> 0, hooked |-> <<>>]

Init == InitWith({pr \in Programs : WellFormed(pr)})
InitLift == InitWith(LiftPrograms)
InitHook == InitWith(HookPrograms)
InitBind == InitWith({pr \in BindPrograms : pr.split <= Len(pr.args)})
InitCompose == InitWith(NestPrograms \cup ArithPrograms)
InitOverlap == InitWith(OverlapPrograms)
InitThen == InitWith(ThenPrograms)
InitTwin == InitWith(TwinPrograms)

Next ==
  \/ \E i \in DOMAIN results : StartCall(i)
  \/ CallReturns
  \/ StepIterateSync
  \/ StepIterateAsync
  \/ StepFromObjectGenerator
  \/ StepBodyGenerator
  \/ StepGetIsAsync
  \/ StepThen
  \/ RunJob
  \/ \E p \in DOMAIN proms : TimerFires(p)

Spec == Init /\ [][Next]_vars
SpecLift == InitLift /\ [][Next]_vars
SpecHook == InitHook /\ [][Next]_vars
SpecCompose == InitCompose /\ [][Next]_vars

SpecOverlap == InitOverlap /\ [][Next]_vars
SpecThen == InitThen /\ [][Next]_vars
SpecTwin == InitTwin /\ [][Next]_vars

\* the event loop keeps running: a runnable frame runs, a queued promise job
\* is run, a timer that is set fires, the caller goes on with its script
FairCompose == SpecCompose /\ WF_vars(Next)

\* the programs that rebind: the caller may call bindThis between invocations
NextBind ==
  \/ Next
  \/ BindThis
SpecBind == InitBind /\ [][NextBind]_vars

(***************************************************************************)
(* What the statements of a body are expected to do, read off the program  *)
(* text alone (used to state the claims, not by the machine).              *)
(***************************************************************************)
G1Is(ops) == prog.top = "g1" /\ prog.g1.ops = ops
Uses(body, op) == \E k \in DOMAIN body.ops : body.ops[k].op = op

\* the error a statement that calls no generator function raises in a drive
\* of the given mode, 0 when it raises none
LeafRaises(i, mode) ==
  CASE i.op = "throw" -> ErrBody
    [] i.op = "yprom" /\ mode = "sync" -> QErr
    [] i.op = "deleg" /\ i.f = "thrower" -> IF mode = "sync" THEN ErrSync ELSE ErrAsync
    [] OTHER -> 0

\* the first error the statements of g2 raise, 0 when they raise none
InnerRaises(mode) ==
  LET ops == prog.g2.ops
      R(k) == LeafRaises(ops[k], mode)
  IN IF \E k \in DOMAIN ops : R(k) # 0
     THEN R(CHOOSE k \in DOMAIN ops : R(k) # 0 /\ \A j \in 1..(k - 1) : R(j) = 0)
     ELSE 0

\* the first error raised in the body of g1 when nothing is caught
Raises(mode) ==
  LET ops == prog.g1.ops
      R(k) == IF ops[k] = Ins("deleg", "g2") THEN InnerRaises(mode) ELSE LeafRaises(ops[k], mode)
  IN IF \E k \in DOMAIN ops : R(k) # 0
     THEN R(CHOOSE k \in DOMAIN ops : R(k) # 0 /\ \A j \in 1..(k - 1) : R(j) = 0)
     ELSE 0

\* implementation pairs whose async implementation resolves to what the
\* sync implementation returns
Matching(f) == f \in {"echo", "later"}
PlainLeaf(i) == i.op = "yv" \/ (i.op = "deleg" /\ Matching(i.f))
PlainStatement(i) ==
  \/ PlainLeaf(i)
  \/ i.op = "deleg" /\ i.f = "g2" /\ \A k \in DOMAIN prog.g2.ops : PlainLeaf(prog.g2.ops[k])

\* a value up to the identity of the objects an invocation creates
UpToIdentity(x) == IF x.t \in {"gen", "prom"} THEN V(x.t, 0) ELSE x

(***************************************************************************)
(* Claims.                                                                 *)
(***************************************************************************)
\* C1: mode equivalence.  For a generator body that yields only plain values
\* and delegates only to matching implementation pairs (directly or through
\* another such generator function), fn.sync(args) returns the value that
\* the promise of fn.async(args) resolves to.
C1_ModeEquivalence ==
  (/\ prog.top = "g1"
   /\ \A k \in DOMAIN prog.g1.ops : PlainStatement(prog.g1.ops[k])
   /\ Settled(1) /\ Settled(2))
  => /\ results[1].t = "ret"
     /\ results[2].t = "resolve"
     /\ results[1].v = results[2].v

C1_Witness ==
  /\ G1Is(<<Ins("yv", ""), Ins("deleg", "g2")>>)
  /\ prog.g2.ops = <<Ins("deleg", "later")>>
  /\ results[1] = Msg("ret", PlainYielded)
  /\ results[2] = Msg("resolve", PlainYielded)

\* C2: a body that yields a bare pending promise and returns what it
\* receives: .sync() throws QuansyncError, .async() resolves to the value the
\* promise resolves to.
C2_InvalidSyncYield ==
  (G1Is(<<Ins("yprom", "")>>) /\ prog.g1.catch = "none")
  => /\ Settled(1) => results[1] = Msg("throw", QuansyncError)
     /\ Settled(2) => results[2] = Msg("resolve", FirstArg(prog.args))

C2_Witness ==
  /\ G1Is(<<Ins("yprom", "")>>) /\ prog.g1.catch = "none"
  /\ prog.args = <<Num(3)>>
  /\ results[1] = Msg("throw", QuansyncError)
  /\ results[2] = Msg("resolve", Num(3))

C4_ErrorRecovery ==
  (prog.top = "g1" /\ prog.g1.catch = "ret" /\ Raises("sync") = ErrSync)
  => /\ Settled(1) => results[1] = Msg("ret", Err(ErrSync))
     /\ Settled(2) => results[2] = Msg("resolve", Err(ErrAsync))
     /\ Settled(3) => results[3] = Msg("resolve", Err(ErrAsync))

C4_Witness ==
  /\ G1Is(<<Ins("deleg", "g2")>>) /\ prog.g1.catch = "ret"
  /\ prog.g2.ops = <<Ins("deleg", "thrower")>>
  /\ results[1] = Msg("ret", Err(ErrSync))
  /\ results[2] = Msg("resolve", Err(ErrAsync))
  /\ results[3] = Msg("resolve", Err(ErrAsync))

\* C5: uncaught errors keep their identity.  With no try/catch, the error
\* thrown by a sync implementation or by the body is the error .sync()
\* throws, and the rejection of an async implementation (or the error thrown
\* by the body) is what .async() and the awaited plain call reject with.
C5_UncaughtErrorsKeepIdentity ==
  /\ (prog.top = "g1" /\ prog.g1.catch = "none")
     => /\ (Settled(1) /\ Raises("sync") \in {ErrSync, ErrBody})
           => results[1] = Msg("throw", Err(Raises("sync")))
        /\ (Settled(2) /\ Raises("async") \in {ErrAsync, ErrBody})
           => results[2] = Msg("reject", Err(Raises("async")))
        /\ (Settled(3) /\ Raises("async") \in {ErrAsync, ErrBody})
           => results[3] = Msg("reject", Err(Raises("async")))
  /\ prog.top = "thrower"
     => /\ Settled(1) => results[1] = Msg("throw", Err(ErrSync))
        /\ Settled(2) => results[2] = Msg("reject", Err(ErrAsync))
        /\ Settled(3) => results[3] = Msg("reject", Err(ErrAsync))

C5_Witness ==
  /\ G1Is(<<Ins("yv", ""), Ins("deleg", "g2")>>) /\ prog.g1.catch = "none"
  /\ prog.g2.ops = <<Ins("deleg", "thrower")>>
  /\ results[1] = Msg("throw", Err(ErrSync))
  /\ results[2] = Msg("reject", Err(ErrAsync))
  /\ results[3] = Msg("reject", Err(ErrAsync))

\* C6: during .sync() of a body that delegates to other dual-mode functions
\* (and creates no promise of its own), no async implementation is invoked,
\* no promise is created and nothing is awaited.
C6_SyncDriveTouchesNoEventual ==
  (prog.top = "g1" /\ ~Uses(prog.g1, "yprom") /\ results[2].t = "none")
  => stats.asyncImpl = 0 /\ stats.proms = 0 /\ stats.awaits = 0

C6_Witness ==
  /\ G1Is(<<Ins("deleg", "g2"), Ins("deleg", "later")>>)
  /\ prog.g2.ops = <<Ins("deleg", "later")>>
  /\ Settled(1) /\ results[2].t = "none"
  /\ stats.syncImpl = 4

\* C7: calling .async never throws synchronously; every error is delivered
\* as a rejection of the returned promise.
C7_AsyncNeverThrowsSynchronously ==
  results[2].t # "syncthrow"

\* C8: awaiting the plain call fn(args) settles with the same outcome
\* (resolved value, or rejection with the same error) as fn.async(args).
C8_AwaitedCallSameAsAsync ==
  (Settled(2) /\ Settled(3))
  => /\ results[2].t = results[3].t
     /\ UpToIdentity(results[2].v) = UpToIdentity(results[3].v)

\* C9: a body that delegates with `yield* getIsAsync()` receives the boolean
\* true when driven by .async() and the boolean false when driven by .sync().
C9_DelegatedGetIsAsync ==
  G1Is(<<Ins("dgia", "")>>)
  => /\ Settled(1) => results[1] = Msg("ret", Bool(FALSE))
     /\ Settled(2) => results[2] = Msg("resolve", Bool(TRUE))

C9_Witness ==
  /\ G1Is(<<Ins("dgia", "")>>)
  /\ results[1] = Msg("ret", Bool(FALSE))
  /\ results[2] = Msg("resolve", Bool(TRUE))

\* C10: a body that does `yield getIsAsync()` (a direct yield) and returns
\* what it is resumed with resolves to true under .async() and under the
\* awaited plain call, and returns false under .sync().
C10_YieldedGetIsAsync ==
  G1Is(<<Ins("ygia", "")>>)
  => /\ Settled(1) => results[1] = Msg("ret", Bool(FALSE))
     /\ Settled(2) => results[2] = Msg("resolve", Bool(TRUE))
     /\ Settled(3) => results[3] = Msg("resolve", Bool(TRUE))

(***************************************************************************)
(* Lifting and construction from values.                                   *)
(***************************************************************************)
\* what the operand of a lift statement is, or resolves to
LiftValue(which) ==
  CASE which = "val" -> INPUT
    [] which = "pending" -> FirstArg(prog.args)
    [] OTHER -> ResolvedValue
Eventual(which) == which \in {"pending", "resolved"}

\* g1 is a body without try/catch made of statements `op` on the operands in `operands`
OnlyStatements(op, operands) ==
  /\ prog.top = "g1" /\ prog.g1.catch = "none" /\ prog.g1.ops # <<>>
  /\ \A k \in DOMAIN prog.g1.ops : prog.g1.ops[k].op = op /\ prog.g1.ops[k].f \in operands

\* what the thenable handed to quansync() resolves to
InputResolvesTo(f) ==
  CASE f = "ofProm" -> ResolvedValue
    [] f = "ofPending" -> TimerValue
    [] OTHER -> Num(3)

\* C11: lift of a value.  A body that delegates to toGenerator(x) and keeps
\* the result: for a non-eventual x both drives produce x itself; when some
\* x is an eventual value .sync() throws QuansyncError, and .async() resolves
\* to what the last x resolves to.
C11_LiftOfValue ==
  OnlyStatements("lift", {"val", "pending", "resolved"})
  => LET ops == prog.g1.ops IN
     /\ Settled(1) =>
          results[1] = IF \E k \in DOMAIN ops : Eventual(ops[k].f)
                       THEN Msg("throw", QuansyncError)
                       ELSE Msg("ret", INPUT)
     /\ Settled(2) => results[2] = Msg("resolve", LiftValue(ops[Len(ops)].f))

C11_Witness ==
  /\ G1Is(<<Ins("lift", "val"), Ins("lift", "pending")>>) /\ prog.g1.catch = "none"
  /\ prog.args = <<Num(3)>>
  /\ results[1] = Msg("throw", QuansyncError)
  /\ results[2] = Msg("resolve", Num(3))

\* C12: idempotent lift.  For a computation g returned by a plain call of a
\* dual-mode function, toGenerator(g) is g itself, and toGenerator applied to
\* what toGenerator(x) returned is that same object.
C12_IdempotentLift ==
  OnlyStatements("same", {"val", "call"})
  => /\ Settled(1) => results[1] = Msg("ret", Bool(TRUE))
     /\ Settled(2) => results[2] = Msg("resolve", Bool(TRUE))
     /\ Settled(3) => results[3] = Msg("resolve", Bool(TRUE))

C12_Witness ==
  /\ G1Is(<<Ins("same", "call"), Ins("same", "val")>>) /\ prog.g1.catch = "none"
  /\ results[1] = Msg("ret", Bool(TRUE))
  /\ results[3] = Msg("resolve", Bool(TRUE))

\* C13: construction from an eventual value.  For a thenable p (a promise
\* already resolved, a promise still pending, or a computation), the function
\* quansync(p) throws QuansyncError from .sync() and its .async() resolves to
\* the value p resolves to.
C13_ThenableConstruction ==
  prog.top \in {"ofProm", "ofPending", "ofGen"}
  => /\ Settled(1) => results[1] = Msg("throw", QuansyncError)
     /\ Settled(2) => results[2] = Msg("resolve", InputResolvesTo(prog.top))

C13_Witness ==
  /\ prog.top = "ofPending"
  /\ results[1] = Msg("throw", QuansyncError)
  /\ results[2] = Msg("resolve", TimerValue)

\* C14: construction from a plain value.  Given a bare immediate value v
\* (not eventual, not a function), the sync entry point of quansync(v)
\* returns v and its async entry point resolves to v.
C14_PlainValueConstruction ==
  prog.top = "ofVal"
  => /\ Settled(1) => results[1] = Msg("ret", Fns["ofVal"].x)
     /\ Settled(2) => results[2] = Msg("resolve", Fns["ofVal"].x)

(***************************************************************************)
(* Receivers and rebinding.                                                *)
(***************************************************************************)
Direct == 1..Len(Script)
ReboundOf(i) == i + Len(Script)

\* what a body that only hands its receiver on returns, run with receiver r
\* and arguments args: the receiver through obj.call(this), or its argument
ReturnsOf(ops, r, args) ==
  IF ops = <<>> THEN FirstArg(args) ELSE r
HandsOn(ops) == ops \in {<<>>, <<Ins("deleg", "self")>>, <<Ins("deleg", "g2")>>}

\* C15: rebind.  Each entry point of bindThis(fn, r, a...) called with the
\* remaining arguments b... has the outcome of the same entry point of fn
\* invoked with receiver r and arguments (a..., b...), whatever receiver the
\* rebound function is called with; for a body that returns its receiver
\* the result is r.
C15_Rebind ==
  \A i \in Direct :
    (ReboundOf(i) \in DOMAIN results /\ Settled(ReboundOf(i)))
    => /\ (prog.recv = prog.bthis /\ Settled(i)) => results[ReboundOf(i)] = results[i]
       /\ HandsOn(prog.g1.ops) =>
            /\ results[ReboundOf(i)].t \in {"ret", "resolve"}
            /\ results[ReboundOf(i)].v = ReturnsOf(prog.g1.ops, prog.bthis, prog.args)

C15_Witness ==
  /\ G1Is(<<Ins("deleg", "self")>>)
  /\ prog.recv = Undef /\ prog.bthis = FakeThis
  /\ prog.args = <<Num(3), Num(4)>> /\ prog.split = 1
  /\ results[4] = Msg("ret", FakeThis)
  /\ results[5] = Msg("resolve", FakeThis)
  /\ results[6] = Msg("resolve", FakeThis)

\* C16: rebinding does not mutate the original.  After bindThis(fn, r, a...)
\* fn, fn.sync and fn.async are the functions they were, the rebound function
\* is another object, and fn behaves as before for its own receiver and
\* arguments.
C16_RebindLeavesOriginal ==
  /\ funcs[1] = FnObject(prog.top)
  /\ Len(funcs) > 1 => funcs[2] # funcs[1]
  /\ \A i \in Direct :
       (prog.bind /\ HandsOn(prog.g1.ops) /\ Settled(i))
       => /\ results[i].t \in {"ret", "resolve"}
          /\ results[i].v = ReturnsOf(prog.g1.ops, prog.recv, prog.args)

C16_Witness ==
  /\ Len(funcs) = 2
  /\ G1Is(<<Ins("deleg", "self")>>)
  /\ prog.recv = Undef /\ prog.bthis = OtherThis
  /\ results[1] = Msg("ret", Undef)
  /\ results[2].t = "running"

\* C17: receiver and argument forwarding.  fn.sync, fn.async and the plain
\* call, invoked with receiver r and arguments args, each run a fresh
\* instance of the body with that r and those args, and a dual-mode call
\* nested in the body with receiver r sees r in its sync and in its async
\* implementation.
C17_ReceiverForwarding ==
  (prog.bind /\ results[ReboundOf(1)].t = "none")
  => /\ \A g \in DOMAIN gens :
          /\ gens[g].fn \in {"g1", "g2", "self"} => gens[g].thisv = prog.recv
          /\ gens[g].fn = "g1" => gens[g].args = prog.args
     /\ \A i \in Direct :
          Settled(i) => Cardinality({g \in DOMAIN gens : gens[g].kind = "body" /\ gens[g].fn = "g1"}) >= i
     /\ \A i \in Direct :
          (HandsOn(prog.g1.ops) /\ Settled(i))
          => /\ results[i].t \in {"ret", "resolve"}
             /\ results[i].v = ReturnsOf(prog.g1.ops, prog.recv, prog.args)

C17_Witness ==
  /\ G1Is(<<Ins("deleg", "g2")>>)
  /\ prog.recv = FakeThis /\ prog.bthis = OtherThis
  /\ results[1] = Msg("ret", FakeThis)
  /\ results[2] = Msg("resolve", FakeThis)
  /\ results[3] = Msg("resolve", FakeThis)
  /\ results[4].t = "none"

(***************************************************************************)
(* The onYield hook.                                                       *)
(***************************************************************************)
\* the invocation under way, or the last one made (0 before the first)
CurrentCall ==
  IF \E i \in DOMAIN results : results[i].t # "none"
  THEN CHOOSE i \in DOMAIN results :
         results[i].t # "none" /\ \A j \in DOMAIN results : j > i => results[j].t = "none"
  ELSE 0

IsPrefix(a, b) == Len(a) <= Len(b) /\ SubSeq(b, 1, Len(a)) = a

\* g1 is built with the hook h and its statements are yields of the kinds ops
HookedBody(h, kinds) ==
  /\ prog.top = "g1" /\ prog.hook = h
  /\ \A k \in DOMAIN prog.g1.ops : prog.g1.ops[k].op \in kinds

\* what the k-th statement of a body of yields yields, and what the body is
\* resumed with there, when acc is the value the body holds before it
Yields(k, acc) ==
  CASE prog.g1.ops[k].op = "yacc" -> acc
    [] OTHER -> PlainYielded
ResumedWith(k, acc) ==
  CASE prog.g1.ops[k].op = "yprom" -> IF prog.hook = "inc" THEN Str ELSE FirstArg(prog.args)
    [] prog.hook = "inc" -> Inc(Yields(k, acc)).v
    [] OTHER -> Yields(k, acc)

\* the value the body holds after its first n statements
AccAfter(n) ==
  LET A[k \in 0..n] == IF k = 0 THEN FirstArg(prog.args) ELSE ResumedWith(k, A[k - 1])
  IN A[n]

\* the calls of the hook a complete drive of a body of plain yields makes
ExpectedCalls(flag) ==
  [k \in DOMAIN prog.g1.ops |-> [v |-> Yields(k, AccAfter(k - 1)), isAsync |-> flag]]

\* C18: hook count and flag.  In every drive of a function built with an
\* onYield hook the hook is called with false in a sync drive and with true
\* in an async drive; for a body with n yields it is called exactly n times
\* per drive, once for each yield, in yield order.
C18_HookCountAndFlag ==
  (prog.hook # "none" /\ CurrentCall # 0)
  => LET flag == Bool(Entry(CurrentCall) # "sync") IN
     /\ \A k \in DOMAIN stats.hooked : stats.hooked[k].isAsync = flag
     /\ HookedBody(prog.hook, {"yacc", "yv"})
        => /\ IsPrefix(stats.hooked, ExpectedCalls(flag))
           /\ Settled(CurrentCall) => stats.hooked = ExpectedCalls(flag)

C18_Witness ==
  /\ G1Is(<<Ins("yacc", ""), Ins("yv", "")>>) /\ prog.hook = "inc"
  /\ prog.args = <<Num(3)>>
  /\ CurrentCall = 1 /\ Settled(1)
  /\ stats.hooked = <<[v |-> Num(3), isAsync |-> Bool(FALSE)], [v |-> PlainYielded, isAsync |-> Bool(FALSE)]>>

\* C19: hook replacement.  At every yield the body is resumed with the
\* resolution of what the hook returned, not of what was yielded: with the
\* hook v => v + 1 a body yielding n receives n + 1, in sync and async drives.
C19_HookReplacement ==
  HookedBody("inc", {"yacc", "yv"})
  => LET final == AccAfter(Len(prog.g1.ops)) IN
     /\ Settled(1) => results[1] = Msg("ret", final)
     /\ Settled(2) => results[2] = Msg("resolve", final)
     /\ Settled(3) => results[3] = Msg("resolve", final)

C19_Witness ==
  /\ G1Is(<<Ins("yacc", ""), Ins("yacc", "")>>) /\ prog.hook = "inc"
  /\ prog.args = <<Num(3)>>
  /\ results[1] = Msg("ret", Num(5))
  /\ results[2] = Msg("resolve", Num(5))

Bodies == {g \in DOMAIN gens : gens[g].kind = "body"}

\* C21 as claimed: for the pair whose sync implementation returns a promise,
\* .sync() throws QuansyncError, and in a sync drive a delegated call to it
\* never hands the promise to the body that delegates.
C21_SyncImplementationPromiseThrows ==
  /\ (prog.top = "leaky" /\ Settled(1)) => results[1] = Msg("throw", QuansyncError)
  /\ (Uses(prog.g1, "deleg") /\ results[2].t = "none")
       => \A g \in Bodies : gens[g].acc.t # "prom"

\* C22: arithmetic composition.  multiply(a, b), whose body starts from a
\* plain yield of 0 and delegates to add b times, returns the product a * b
\* (as a string) under .sync(), and the promise of .async() resolves to it,
\* for all factors up to MaxArg.
C22_ArithmeticComposition ==
  (prog.top = "g1" /\ prog.g1.ops = Multiply)
  => LET product == String(Num(prog.args[1].v * prog.args[2].v))
     IN /\ Settled(1) => results[1] = Msg("ret", product)
        /\ Settled(2) => results[2] = Msg("resolve", product)

C22_Witness ==
  /\ prog.top = "g1" /\ prog.g1.ops = Multiply
  /\ prog.args = <<Num(4), Num(5)>>
  /\ results[1] = Msg("ret", String(Num(20)))
  /\ results[2] = Msg("resolve", String(Num(20)))

\* the body g takes a step of its own: it moves to another statement,
\* receives the value of a yield or yield* expression, or ends
TakesStep(g) ==
  \/ gens'[g].pc # gens[g].pc
  \/ gens'[g].acc # gens[g].acc
  \/ gens[g].st # "done" /\ gens'[g].st = "done"

\* the computations the body g has started and not yet taken the result of:
\* the one it delegates to, the one it has yielded
Children(g) == {gens[g].deleg, gens[g].wait} \ {0}

\* C23: step ordering.  A body goes through its statements in order, and
\* whenever it takes a step, every nested computation it has started (by
\* delegation or by yielding the computation of a plain call) has completed
\* or failed: parent and child never interleave, in sync and async drives.
C23_StepOrdering ==
  [][\A g \in Bodies :
       TakesStep(g) => /\ gens'[g].pc >= gens[g].pc
                       /\ \A c \in Children(g) : gens[c].st = "done"]_vars

\* in an async drive the computation g1 yielded has run g2 to its end,
\* and g1 has not been resumed yet
C23_Witness ==
  /\ prog.top = "g1" /\ prog.g1.ops = <<Ins("ycall", "g2"), Ins("yv", "")>>
  /\ prog.g2.ops = <<Ins("deleg", "later")>>
  /\ results[2].t = "running"
  /\ \E g \in Bodies :
       /\ gens[g].fn = "g1" /\ gens[g].st = "susp" /\ gens[g].pc = 1
       /\ gens[g].wait # 0 /\ gens[gens[g].wait].st = "done"
       /\ \E h \in Bodies : gens[h].fn = "g2" /\ h > g /\ gens[h].st = "done"

\* the generator G is suspended at a yield of GET_IS_ASYNC: the first yield
\* of fromObject's generator, the yield of getIsAsync, a `yield GET_IS_ASYNC`
\* of a body
AtTag(G) ==
  /\ G.st = "susp"
  /\ CASE G.kind = "obj" -> G.pc = 1
        [] G.kind = "gia" -> TRUE
        [] OTHER -> /\ G.deleg = 0 /\ G.wait = 0
                    /\ G.pc <= Len(BodyOf(G.fn).ops)
                    /\ BodyOf(G.fn).ops[G.pc].op = "ytag"

\* the answer to a yield of GET_IS_ASYNC is being delivered
TagAnswered == TopIs("run") /\ Top(Machine).ph = "enter" /\ msg.t = "next"
               /\ AtTag(gens[Top(Machine).g])

\* C24: mode consistency.  Within one drive every yield of GET_IS_ASYNC, at
\* every depth (in delegated computations and in computations the body
\* yields), is answered with the mode of the entry point the caller used:
\* never with a truthy value under .sync(), always with true under .async()
\* and the awaited plain call.
C24_ModeConsistency ==
  TagAnswered
  => IF Entry(CurrentCall) = "sync" THEN ~Truthy(msg.v) ELSE msg.v = Bool(TRUE)

\* g1 reaches g2 once by yielding its computation and once by delegation;
\* g2 returns the answer to its own yield of GET_IS_ASYNC
C24_Witness ==
  /\ G1Is(<<Ins("ycall", "g2"), Ins("deleg", "g2")>>) /\ prog.g1.catch = "none"
  /\ prog.g2.ops = <<Ins("ytag", "")>>
  /\ results[1] = Msg("ret", Undef)
  /\ results[2] = Msg("resolve", Bool(TRUE))
  /\ results[3] = Msg("resolve", Bool(TRUE))

\* the mode of invocation i, and the outcome of invocation i when its drive
\* completes with the value v
ModeOf(i) == IF Entry(i) = "sync" THEN "sync" ELSE "async"
Done(i, v) == Msg(IF Entry(i) = "sync" THEN "ret" ELSE "resolve", v)

\* the error that resolving what statement k of g1 yields raises in a drive
\* of the given mode, 0 when it raises none: QuansyncError for the bare
\* promise in a sync drive, the rejection of the promise thrower's async
\* implementation returns, yielded through the delegation or inside the
\* nested drive of the computation g1 yields
Injected(k, mode) ==
  LET i == prog.g1.ops[k] IN
  CASE i.op = "yprom" /\ mode = "sync" -> QErr
    [] i.op \in {"deleg", "ycall"} /\ i.f = "thrower" /\ mode = "async" -> ErrAsync
    [] OTHER -> 0

\* statement k of g1 is a yield (or getIsAsync) that raises nothing in a
\* drive of the given mode
Harmless(k, mode) ==
  prog.g1.ops[k].op \in {"yv", "dgia", "ygia", "yprom"} /\ Injected(k, mode) = 0

\* what g1 returns when its last statement is k, a harmless one
Returned(k, mode) ==
  CASE prog.g1.ops[k].op = "yv" -> PlainYielded
    [] prog.g1.ops[k].op = "dgia" -> Bool(mode = "async")
    [] prog.g1.ops[k].op = "yprom" -> FirstArg(prog.args)
    [] OTHER -> V("gen", 0)

\* C25: error injection instead of abort.  When resolving a yielded value
\* raises an error (QuansyncError for a bare promise in a sync drive, the
\* rejection of an awaited promise or of a nested computation in an async
\* drive) the body catches it at the offending yield and the drive goes on:
\* a yield made in the catch block is resolved normally and the drive
\* completes with what the body returns; so are the yields after a
\* try/catch around the offending statement.
C25_ErrorInjection ==
  \A i \in 1..3 : \A k \in DOMAIN prog.g1.ops :
    (/\ prog.top = "g1" /\ Settled(i)
     /\ Injected(k, ModeOf(i)) # 0
     /\ \A j \in 1..(k - 1) : Harmless(j, ModeOf(i)))
    => /\ prog.g1.catch = "yield" => results[i] = Done(i, Err(Injected(k, ModeOf(i))))
       /\ (prog.g1.catch = "cont" /\ k = Len(prog.g1.ops))
            => results[i] = Done(i, Err(Injected(k, ModeOf(i))))
       /\ (prog.g1.catch = "cont" /\ k < Len(prog.g1.ops) /\ Harmless(k + 1, ModeOf(i))
            /\ k + 1 = Len(prog.g1.ops))
            => UpToIdentity(results[i].v) = Returned(k + 1, ModeOf(i)) /\ results[i].t = Done(i, Undef).t

\* try { yield promise; yield* thrower() } catch (err) { return yield err }:
\* the sync drive catches QuansyncError at the first statement, the async
\* drives catch the rejection at the second
C25_Witness ==
  /\ G1Is(<<Ins("yprom", ""), Ins("deleg", "thrower")>>) /\ prog.g1.catch = "yield"
  /\ results[1] = Msg("ret", QuansyncError)
  /\ results[2] = Msg("resolve", Err(ErrAsync))
  /\ results[3] = Msg("resolve", Err(ErrAsync))

\* the terminal result of the computation f.call(this, a) in a drive of the
\* given mode: the error it fails with (0: none), the value it completes with
CallRaises(f, mode) ==
  IF f = "thrower" \/ (f = "g2" /\ prog.g2.ops = <<Ins("deleg", "thrower")>>)
  THEN (IF mode = "sync" THEN ErrSync ELSE ErrAsync)
  ELSE 0
CallValue(f, a, mode) ==
  CASE f = "g2" /\ prog.g2.ops = <<Ins("yv", "")>> -> PlainYielded
    [] f = "g2" /\ prog.g2.ops = <<Ins("ytag", "")>> -> IF mode = "sync" THEN Undef ELSE Bool(TRUE)
    [] OTHER -> a

\* the outcome of invocation i of a g1 without try/catch whose statements
\* all are `acc = yield f.call(this, acc)`
YieldedCalls(i) ==
  LET ops == prog.g1.ops
      n == Len(ops)
      R(k) == CallRaises(ops[k].f, ModeOf(i))
      A[k \in 0..n] ==
        IF k = 0 THEN FirstArg(prog.args) ELSE CallValue(ops[k].f, A[k - 1], ModeOf(i))
  IN IF \E k \in 1..n : R(k) # 0
     THEN Msg(IF Entry(i) = "sync" THEN "throw" ELSE "reject",
              Err(R(CHOOSE k \in 1..n : R(k) # 0 /\ \A j \in 1..(k - 1) : R(j) = 0)))
     ELSE Done(i, A[n])

\* C26: directly yielded nested call.  When a body yields (plain yield, no
\* delegation) the computation a plain call of a dual-mode function returns,
\* the driver drives that computation in the mode of the drive and resumes
\* the body with its terminal result: the value it completes with, or the
\* error it fails with, thrown at the yield.
C26_YieldedNestedCall ==
  \A i \in 1..3 :
    (/\ prog.top = "g1" /\ prog.g1.catch = "none" /\ prog.g1.ops # <<>>
     /\ \A k \in DOMAIN prog.g1.ops : prog.g1.ops[k].op = "ycall"
     /\ Settled(i))
    => results[i] = YieldedCalls(i)

\* g1 yields later(3) and then g2(3), and g2 yields 7
C26_Witness ==
  /\ G1Is(<<Ins("ycall", "later"), Ins("ycall", "g2")>>) /\ prog.g1.catch = "none"
  /\ prog.g2.ops = <<Ins("yv", "")>>
  /\ results[1] = Msg("ret", PlainYielded)
  /\ results[2] = Msg("resolve", PlainYielded)
  /\ stats.syncImpl = 3

\* C27: plain pass-through.  A yielded value that is neither GET_IS_ASYNC,
\* nor the computation of a dual-mode call, nor a promise is what the body
\* is resumed with, in both modes; a generator object of the host that no
\* dual-mode function produced is handed back as it is and never stepped.
C27_PlainPassThrough ==
  (/\ prog.top = "g1" /\ prog.g1.ops # <<>>
   /\ \A k \in DOMAIN prog.g1.ops : prog.g1.ops[k].op \in {"yv", "ygia"})
  => /\ \A g \in DOMAIN gens : gens[g].kind = "gia" => gens[g].st = "start"
     /\ \A i \in 1..3 : Settled(i) =>
          /\ results[i].t = Done(i, Undef).t
          /\ IF prog.g1.ops[Len(prog.g1.ops)].op = "yv"
             THEN results[i].v = PlainYielded
             ELSE results[i].v.t = "gen" /\ gens[results[i].v.v].kind = "gia"

\* g1 yields 7 and then a generator object of the host, and returns what it
\* was resumed with last
C27_Witness ==
  /\ G1Is(<<Ins("yv", ""), Ins("ygia", "")>>) /\ prog.g1.catch = "none"
  /\ \A i \in 1..3 : Settled(i) /\ results[i].v.t = "gen"
  /\ results[1].v # results[2].v
  /\ Cardinality({g \in DOMAIN gens : gens[g].kind = "gia"}) = 3

\* C28: tail call.  For produce = quansync((...args) => echo(...args)), a
\* plain function that returns the computation of another dual-mode call,
\* produce.sync() returns what echo's sync implementation returns, and
\* produce.async() and the awaited plain call resolve to what echo's async
\* implementation resolves to.
C28_TailCall ==
  prog.top = "tail"
  => /\ Settled(1) => results[1] = Msg("ret", FirstArg(prog.args))
     /\ Settled(2) => results[2] = Msg("resolve", FirstArg(prog.args))
     /\ Settled(3) => results[3] = Msg("resolve", FirstArg(prog.args))

C28_Witness ==
  /\ prog.top = "tail" /\ prog.args = <<Num(3)>>
  /\ results[1] = Msg("ret", Num(3))
  /\ results[2] = Msg("resolve", Num(3))
  /\ results[3] = Msg("resolve", Num(3))
  /\ stats.syncImpl = 2 /\ stats.asyncImpl = 4

\* C29: run to completion.  Every invocation that has started ends in an
\* outcome (a value or an error), and in one only: the outcome never
\* changes.  A sync drive reaches it without the call stack ever emptying
\* (it never waits for a job or a timer); an async drive reaches it
\* provided the event loop keeps running jobs and timers.
C29_RunToCompletion ==
  /\ \A i \in 1..3 : (results[i].t = "running") ~> Settled(i)
  /\ [][\A i \in 1..3 : Settled(i) => results'[i] = results[i]]_vars
  /\ [](\A i \in 1..3 : (results[i].t = "running" /\ Entry(i) = "sync") => Running)

\* an async drive has settled after waiting for a timer and for a nested drive
C29_Witness ==
  /\ G1Is(<<Ins("yprom", ""), Ins("ycall", "later")>>) /\ prog.g1.catch = "none"
  /\ results[2] = Msg("resolve", Num(3))
  /\ results[3].t = "none"
  /\ \A g \in DOMAIN gens : gens[g].st = "done"

(***************************************************************************)
(* Overlapping invocations.                                                *)
(***************************************************************************)
\* the invocations the caller has made
Started == {i \in DOMAIN results : results[i].t # "none"}

\* the instances of the generator function f
InstancesOf(f) == {g \in Bodies : gens[g].fn = f}

\* the computations plain calls of f have returned
PlainCallsOf(f) == {g \in DOMAIN gens : gens[g].kind = "obj" /\ gens[g].fn = f}

\* C30: isolation of concurrent invocations.  Every invocation creates a
\* computation of its own: .sync() and .async() an instance of the generator
\* function, the plain call the object it returns and, when that is awaited,
\* an instance of the generator function; when all invocations have settled
\* there is one complete instance for each.  When two async drives of the
\* same function overlap, under every interleaving of their jobs and timers
\* each settles with the outcome of the drive that ran alone.
C30_Isolation ==
  prog.overlap
  => /\ Cardinality(InstancesOf("g1")) + Cardinality(PlainCallsOf("g1")) >= Cardinality(Started)
     /\ Cardinality(InstancesOf("g1")) <= Cardinality(Started)
     /\ Cardinality(PlainCallsOf("g1")) = Cardinality({i \in Started : Entry(i) = "await"})
     /\ (\A i \in DOMAIN results : Settled(i))
          => /\ Cardinality(InstancesOf("g1")) = Cardinality(Started)
             /\ \A g \in InstancesOf("g1") : gens[g].st = "done"
     /\ \A i \in {2, 3} :
          (Entry(1) = "async" /\ Settled(1) /\ Settled(i)) => results[i] = results[1]
     /\ (Entry(1) = "sync" /\ Settled(2) /\ Settled(3)) => results[2] = results[3]

\* the third invocation has settled, with the outcome of the first, while
\* the second, made before it, is still waiting for its timer
C30_Witness ==
  /\ prog.overlap /\ Entry(1) = "async"
  /\ prog.g1 = Body(<<Ins("yprom", ""), Ins("deleg", "later")>>, "none")
  /\ results[1] = Msg("resolve", Num(3))
  /\ results[2].t = "running"
  /\ results[3] = Msg("resolve", Num(3))

\* the instance g is paused at a yield of a plain value (`yield 7`)
PausedAtPlain(g) ==
  /\ gens[g].st = "susp" /\ gens[g].deleg = 0 /\ gens[g].wait = 0
  /\ gens[g].pc <= Len(BodyOf(gens[g].fn).ops)
  /\ BodyOf(gens[g].fn).ops[gens[g].pc].op = "yv"

\* C31 as claimed: in an async drive a yield of a plain value is not a
\* suspension point: while an instance is paused at one, no instance of
\* another invocation takes a step.
C31_PlainYieldIsNoSuspensionPoint ==
  [][\A g \in InstancesOf("g1") : \A h \in InstancesOf("g1") :
       (prog.overlap /\ Entry(1) = "async" /\ g # h /\ gens'[h] # gens[h])
       => ~PausedAtPlain(g)]_vars

(***************************************************************************)
(* Implementation pairs, terminal values, then(), the identity hook.       *)
(***************************************************************************)
\* the computations of plain calls of implementation pairs, and those among
\* them that have been resumed after their yield of GET_IS_ASYNC
PairCalls == {g \in DOMAIN gens : gens[g].kind = "obj" /\ Fns[gens[g].fn].kind = "pair"}
PastTag == {g \in PairCalls : gens[g].st # "start" /\ ~AtTag(gens[g])}

\* the delegations a complete drive of g1 executes: all of them when every
\* statement has its own try/catch, else those up to the first call of thrower
Delegations ==
  LET ops == prog.g1.ops
      T == {k \in DOMAIN ops : ops[k].f = "thrower"}
  IN IF prog.g1.catch = "cont" \/ T = {} THEN Len(ops)
     ELSE CHOOSE k \in T : \A j \in T : k <= j

\* C32: exactly one implementation per delegated call.  Every delegated
\* call of an implementation pair yields GET_IS_ASYNC first and then invokes
\* one implementation once: the implementations invoked so far (beyond
\* g1's own entry points, one per instance of g1) are as many as the
\* delegated calls that have been answered; a complete sync drive of a body
\* of n delegations invokes n sync and no async implementations, a complete
\* async drive n async and no sync implementations.
C32_ExactlyOneImplementation ==
  (/\ prog.top = "g1" /\ prog.g1.ops # <<>>
   /\ \A k \in DOMAIN prog.g1.ops :
        prog.g1.ops[k].op = "deleg" /\ prog.g1.ops[k].f \in {"later", "thrower"})
  => /\ stats.syncImpl + stats.asyncImpl
          = Cardinality(InstancesOf("g1")) + Cardinality(PastTag)
     /\ results[2].t = "none" => stats.asyncImpl = 0
     /\ Settled(1) => stats.syncImpl = 1 + Delegations
     /\ (Settled(2) /\ results[3].t = "none") => stats.asyncImpl = 1 + Delegations
     /\ Settled(3) => stats.asyncImpl = 2 * (1 + Delegations)

\* two delegated calls, the first of them failing and caught: each drive
\* has invoked its own implementation of both, and g1's entry point, once
C32_Witness ==
  /\ G1Is(<<Ins("deleg", "thrower"), Ins("deleg", "later")>>) /\ prog.g1.catch = "cont"
  /\ Settled(3)
  /\ stats.syncImpl = 3 /\ stats.asyncImpl = 6
  /\ Cardinality(PairCalls) = 6

\* the sync invocation (the first of the script) is the only one made so far
\* and g1's last statement is a delegated call of leaky, whose sync
\* implementation returns a promise, after statements that raise nothing
ReturnsEventual ==
  /\ prog.top = "g1" /\ prog.g1.ops # <<>> /\ Entry(1) = "sync"
  /\ prog.g1.ops[Len(prog.g1.ops)] = Ins("deleg", "leaky")
  /\ \A k \in 1..(Len(prog.g1.ops) - 1) : prog.g1.ops[k].op \in {"yv", "dgia", "ygia"}

\* C33: .sync() of a function built from a generator body never returns a
\* thenable: it returns a value that is no eventual, or throws.  A body
\* whose returned value is a promise makes .sync() throw QuansyncError to
\* the caller, after the body has completed: a try/catch of the body
\* does not see the error.
C33_SyncNeverReturnsThenable ==
  /\ (prog.top = "g1" /\ Entry(1) = "sync" /\ results[1].t = "ret")
       => ~isThenable(gens, results[1].v)
  /\ (ReturnsEventual /\ Settled(1))
       => /\ results[1] = Msg("throw", QuansyncError)
          /\ gens[1].kind = "body" /\ gens[1].st = "done" /\ gens[1].acc.t = "prom"

\* the body try { yield 7; acc = yield* leaky(acc) } catch (err) { ... }
\* has completed holding the promise, and .sync() has thrown
C33_Witness ==
  /\ G1Is(<<Ins("yv", ""), Ins("deleg", "leaky")>>) /\ prog.g1.catch = "yield"
  /\ results[1] = Msg("throw", QuansyncError)
  /\ gens[1].kind = "body" /\ gens[1].st = "done" /\ gens[1].acc.t = "prom"
  /\ results[2].t = "none"

\* the value the held computation stands for: later(3) gives 3,
\* self.call(FakeThis) gives its receiver
HeldValue == IF prog.held = "later" THEN Num(3) ELSE FakeThis

\* the body only lets promises adopt the held computation, k = Len times
OnlyThen == prog.held # "none" /\ \A k \in DOMAIN prog.g1.ops : prog.g1.ops[k].op = "aw"

\* the body lets a promise adopt the held computation and then drives it:
\* by delegation (yield* c) or by yielding it to the driver (yield c)
ThenDrive ==
  /\ prog.held # "none" /\ Len(prog.g1.ops) = 2
  /\ prog.g1.ops[1].op = "aw" /\ prog.g1.ops[2].op \in {"dc", "yc"}

\* the executions of asynchronous implementations that the first invocation,
\* a .sync() that stops at its first yielded promise unless the body catches
\* the error and goes on, leaves to the job loop
ThenOfSync == IF prog.g1.catch = "none" THEN 1 ELSE Len(prog.g1.ops)

\* C34: awaiting a default-call computation does not use its cursor: each
\* of the k calls of its then() starts one execution of the asynchronous
\* implementation with the receiver and the arguments of the plain call and
\* leaves the object where it was, so that driving it or delegating to it
\* afterwards still runs it from the start.
C34_ThenLeavesComputationUnadvanced ==
  /\ (OnlyThen /\ prog.g1.ops # <<>>) =>
        /\ gens[Held.v] = InitGens(prog)[Held.v]
        /\ (Settled(2) /\ results[3].t = "none") =>
              /\ results[2] = Msg("resolve", HeldValue)
              /\ stats.asyncImpl = ThenOfSync + 1 + Len(prog.g1.ops)
        /\ Settled(3) =>
              /\ results[3] = Msg("resolve", HeldValue)
              /\ stats.asyncImpl = ThenOfSync + 2 * (1 + Len(prog.g1.ops))
  /\ (ThenDrive /\ prog.g1.catch = "none") =>
        /\ results[2].t = "none" =>
              (gens[Held.v].st # "start" => \E g \in DOMAIN gens : gens[g].kind = "body" /\ gens[g].pc = 2)
        /\ (Settled(2) /\ results[3].t = "none") =>
              /\ results[2] = Msg("resolve", HeldValue)
              /\ gens[Held.v].st = "done"
              /\ stats.asyncImpl = 4 /\ stats.syncImpl = 1

\* two calls of then() on one computation in one invocation, after a third
\* in the invocation before: three executions, the object not advanced
C34_Witness ==
  /\ prog.held = "self" /\ G1Is(<<Ins("aw", ""), Ins("aw", "")>>) /\ prog.g1.catch = "none"
  /\ results[2] = Msg("resolve", FakeThis) /\ results[3].t = "none"
  /\ stats.asyncImpl = 4 /\ gens[Held.v].st = "start"

\* the body instance the k-th invocation of the function f has made: the
\* k-th instance of f in the order of creation
Instance(f, k) ==
  CHOOSE g \in InstancesOf(f) : Cardinality({h \in InstancesOf(f) : h <= g}) = k

\* C35: identity hook transparency.  For every body and argument tuple the
\* function built with the hook v => v has, in .sync(), in .async() and
\* awaited, the same outcome as the function built from the same body with
\* no hook, and its body is fed the same sequence of values and errors.
C35_IdentityHookTransparency ==
  Twin(prog) =>
    \A i \in 1..Len(Script) :
      (Settled(i) /\ Settled(i + Len(Script)))
        => /\ results[i + Len(Script)] = results[i]
           /\ Cardinality(InstancesOf("g1")) = Len(Script)
           /\ Cardinality(InstancesOf("bare")) >= i
           /\ gens[Instance("bare", i)].fed = gens[Instance("g1", i)].fed

\* both functions were driven asynchronously over a body that yields what it
\* holds and then a promise: both were fed 3, then the promise's resolution
C35_Witness ==
  /\ Twin(prog) /\ G1Is(<<Ins("yacc", ""), Ins("yprom", "")>>) /\ prog.args = <<Num(3)>>
  /\ Settled(5) /\ results[2] = Msg("resolve", Num(3)) /\ results[6].t = "none"
  /\ stats.hooked = <<>>
  /\ gens[Instance("g1", 2)].fed = <<Msg("next", Undef), Msg("next", Num(3)), Msg("next", Num(3))>>
  /\ gens[Instance("bare", 2)].fed = gens[Instance("g1", 2)].fed

====
